---- MODULE Spec2Model ----
(***************************************************************************)
(* A model of the protox compiler driver (src/src/compile/mod.rs), of the  *)
(* descriptor generator (src/src/check/mod.rs) and of the entry point of   *)
(* the parser crate (src/protox-parse/src/lib.rs).                         *)
(*                                                                         *)
(* Three specifications are given.  Spec is the compiler driver: a         *)
(* Compiler instance over a fixed in-memory file resolver, driven by its   *)
(* public methods.  SpecCheck applies the pure functions of the descriptor *)
(* generator and of the parser entry point to inputs drawn from bounded    *)
(* sets.  SpecSize runs the driver and the parser entry point on files at  *)
(* and around the file-size bound.                                         *)
(*                                                                         *)
(* Rust's Option<T> is a sequence of length at most one (None is <<>>);    *)
(* a u64 / usize value is four 16-bit limbs, most significant first, since *)
(* the values at stake (2^31, 2^32 + 1, 2^64 - 1) exceed the integers of   *)
(* the model checker.                                                      *)
(***************************************************************************)
EXTENDS Integers, Sequences, FiniteSets, TLC

None == <<>>
Some(x) == <<x>>

(***************************************************************************)
(* Unsigned 64-bit values.                                                 *)
(***************************************************************************)
Limb == 2^16

\* the u64 with value n, for 0 <= n < 2^31
U64(n) == <<0, 0, n \div Limb, n % Limb>>

\* the comparison as it would be with >= in place of >
U64Ge(a, b) ==
    \A i \in 1..4 : a[i] < b[i] => \E j \in 1..(i - 1) : a[j] > b[j]

\* a > b on u64
U64Gt(a, b) ==
    \E i \in 1..4 : a[i] > b[i] /\ \A j \in 1..(i - 1) : a[j] = b[j]

\* i32::try_from(u64): Ok(v) exactly when v <= i32::MAX
I32TryFromU64(v) ==
    IF v[1] = 0 /\ v[2] = 0 /\ v[3] < 32768
    THEN [ok |-> TRUE, val |-> v[3] * Limb + v[4]]
    ELSE [ok |-> FALSE, val |-> 0]

\* const MAX_MESSAGE_FIELD_NUMBER: i32
MAX_MESSAGE_FIELD_NUMBER == 536870911

\* const MAX_FILE_LEN: usize = i32::MAX as usize
MAX_FILE_LEN == 2147483647

\* i32::MAX
I32_MAX == 2147483647

\* MAX_FILE_LEN as usize
MAX_FILE_LEN_usize == U64(MAX_FILE_LEN)

(***************************************************************************)
(* State.                                                                  *)
(*   fs                   the files the resolver can open, by logical name *)
(*   files, file_names    Compiler.file_map (ParsedFileMap)                *)
(*   include_imports, include_source_info   the Compiler's flags           *)
(*   ret                  what the last call returned, with the resolver   *)
(*                        and parser calls it made                         *)
(*   added_by_add_file, added_by_proto   history: the names a successful   *)
(*                        add_file was called for, and the names           *)
(*                        add_file_descriptor_proto inserted               *)
(*   source               the source text handed to the parser crate: its  *)
(*                        length and what parse::parse_file makes of it    *)
(*   check_out            Option of the result of to_file_descriptor       *)
(*   parse_out            Option of the result of protox_parse::parse      *)
(*   info_out             Option of the result of get_source_code_info     *)
(***************************************************************************)
VARIABLES fs, files, file_names, include_imports, include_source_info, ret,
          added_by_add_file, added_by_proto,
          source, check_out, parse_out, info_out

vars == <<fs, files, file_names, include_imports, include_source_info, ret,
          added_by_add_file, added_by_proto,
          source, check_out, parse_out, info_out>>

driver_vars == <<fs, files, file_names, include_imports, include_source_info,
                 ret, added_by_add_file, added_by_proto>>

check_vars == <<source, check_out, parse_out, info_out>>

(***************************************************************************)
(* The descriptor generator: src/src/check/mod.rs.                         *)
(*                                                                         *)
(* An ast::File is [syntax, imports, messages, enums, services, extends,   *)
(* options]; an import is [value, kind] with kind an Option of "Public" /  *)
(* "Weak"; an ast::Message is [name, fields, messages, enums, extensions,  *)
(* extends, oneofs, options, reserved]; a field (ast::MessageField) is     *)
(* [kind, name, number, label, ty, options] with kind "Field", "Map" or    *)
(* "Group"; an ast::Int is [negative, value, span] with value a u64 and    *)
(* span a pair <<start, end>>; an ast::Reserved is [kind, ranges, names]   *)
(* with kind "Ranges" or "Names"; an ast::ReservedRange is [start, end]    *)
(* with end = [kind, value], kind "None", "Int" or "Max".                  *)
(* The Context is [syntax, errors, panicked]: panicked records that the    *)
(* lowering has come to a todo!() or to an unwrap() of an Err, where the   *)
(* code panics and returns nothing.  A function that takes                 *)
(* `ctx: &mut Context` returns [val, ctx].                                 *)
(***************************************************************************)

\* CheckError::InvalidMessageNumber { span }
InvalidMessageNumber(span) == [kind |-> "InvalidMessageNumber", span |-> span]

\* index_to_i32: usize -> i32 by try_into().unwrap(); the indices of one file
\* are below MAX_FILE_LEN, where the conversion keeps the value
index_to_i32(index) == index

\* the conversion as it would be if it did not look at the sign
to_field_number_unsigned(self, ctx) ==
    LET converted == I32TryFromU64(self.value)
    IN  IF /\ converted.ok
           /\ converted.val >= 1
           /\ converted.val <= MAX_MESSAGE_FIELD_NUMBER
        THEN [val |-> Some(converted.val), ctx |-> ctx]
        ELSE [val |-> None,
              ctx |-> [ctx EXCEPT
                          !.errors = Append(@, InvalidMessageNumber(self.span))]]

\* ast::Int::to_field_number
to_field_number(self, ctx) ==
    LET converted == I32TryFromU64(self.value)
    IN  IF /\ self.negative = FALSE
           /\ converted.ok
           /\ converted.val >= 1
           /\ converted.val <= MAX_MESSAGE_FIELD_NUMBER
        THEN [val |-> Some(converted.val), ctx |-> ctx]
        ELSE [val |-> None,
              ctx |-> [ctx EXCEPT
                          !.errors = Append(@, InvalidMessageNumber(self.span))]]

\* ast::FieldLabel::to_field_label
to_field_label(self) ==
    CASE self = "Optional" -> "LABEL_OPTIONAL"
      [] self = "Required" -> "LABEL_REQUIRED"
      [] self = "Repeated" -> "LABEL_REPEATED"

\* todo!() and unwrap() of an Err: the lowering panics
panic(ctx) == [ctx EXCEPT !.panicked = TRUE]

\* ast::Ty::to_type: a scalar type; a named type is todo!()
to_type(self, ctx) ==
    [type |-> Some("TYPE_" \o self), type_name |-> None,
     ctx |-> IF self = "Named" THEN panic(ctx) ELSE ctx]

\* Option::unwrap_or
unwrap_or(opt, default) == IF opt = None THEN default ELSE opt[1]

\* the options of a field: none, or ast::OptionBody::to_field_options,
\* which is todo!()
to_field_options(options, ctx) == IF options = <<>> THEN ctx ELSE panic(ctx)

\* proto3_optional of ast::Field and ast::Map
proto3_optional(self, ctx) ==
    IF ctx.syntax = "proto3" /\ self.label = Some("Optional")
    THEN Some(TRUE)
    ELSE None

\* ast::Field::to_field_descriptor, after self.number.to_field_number(ctx)
\* and self.ty.to_type(ctx)
Field_to_field_descriptor_typed(self, number, ty) ==
    [val |-> [name |-> Some(self.name),
              number |-> number.val,
              label |-> Some(to_field_label(unwrap_or(self.label, "Optional"))),
              type |-> ty.type,
              type_name |-> ty.type_name,
              oneof_index |-> None,
              proto3_optional |-> proto3_optional(self, ty.ctx)],
     ctx |-> to_field_options(self.options, ty.ctx)]

\* ast::Field::to_field_descriptor, after self.number.to_field_number(ctx)
Field_to_field_descriptor_numbered(self, number) ==
    Field_to_field_descriptor_typed(self, number, to_type(self.ty, number.ctx))

\* ast::Field::to_field_descriptor
Field_to_field_descriptor(self, ctx) ==
    Field_to_field_descriptor_numbered(self, to_field_number(self.number, ctx))

\* ast::Map::to_field_descriptor, after to_field_number and to_type: the
\* label is None and the type is that of self.ty
Map_to_field_descriptor_typed(self, number, ty) ==
    [val |-> [name |-> Some(self.name),
              number |-> number.val,
              label |-> None,
              type |-> ty.type,
              type_name |-> ty.type_name,
              oneof_index |-> None,
              proto3_optional |-> proto3_optional(self, ty.ctx)],
     ctx |-> to_field_options(self.options, ty.ctx)]

Map_to_field_descriptor_numbered(self, number) ==
    Map_to_field_descriptor_typed(self, number, to_type(self.ty, number.ctx))

\* a field's descriptor together with the generated messages
with_messages(r, messages) ==
    [val |-> r.val, ctx |-> r.ctx, messages |-> messages]

\* ast::Map::to_field_descriptor; it pushes nothing to `messages`
\* (generate_message_descriptor is todo!() and is not called)
Map_to_field_descriptor(self, ctx, messages) ==
    with_messages(
        Map_to_field_descriptor_numbered(
            self, to_field_number(self.number, ctx)),
        messages)

\* ast::Group::to_field_descriptor: todo!()
Group_to_field_descriptor(self, ctx, messages) ==
    [val |-> [name |-> Some(self.name), number |-> None, label |-> None,
              type |-> None, type_name |-> None, oneof_index |-> None,
              proto3_optional |-> None],
     ctx |-> panic(ctx),
     messages |-> messages]

\* ast::MessageField::to_field_descriptor; returns [val, ctx, messages]
MessageField_to_field_descriptor(self, ctx, messages) ==
    CASE self.kind = "Field" ->
             with_messages(Field_to_field_descriptor(self, ctx), messages)
      [] self.kind = "Group" -> Group_to_field_descriptor(self, ctx, messages)
      [] self.kind = "Map" -> Map_to_field_descriptor(self, ctx, messages)

\* the loop over the fields as it would be if it stopped at the first field
\* that records an error
RECURSIVE map_fields_until_error(_, _, _)
map_fields_until_error(fields, i, acc) ==
    IF i > Len(fields)
    THEN acc
    ELSE LET r == MessageField_to_field_descriptor(fields[i], acc.ctx,
                                                   acc.messages)
             next == [val |-> Append(acc.val, r.val), ctx |-> r.ctx,
                      messages |-> r.messages]
         IN  IF r.ctx.errors # acc.ctx.errors
             THEN next
             ELSE map_fields_until_error(fields, i + 1, next)

\* one more field descriptor collected
collect_field(acc, r) ==
    [val |-> Append(acc.val, r.val), ctx |-> r.ctx, messages |-> r.messages]

\* self.body.fields.iter()
\*     .map(|e| e.to_field_descriptor(ctx, &mut generated_nested_messages))
\*     .collect(), from the i-th field on; acc is [val, ctx, messages], val
\* the descriptors so far, messages the generated nested messages so far
RECURSIVE map_fields(_, _, _)
map_fields(fields, i, acc) ==
    IF i > Len(fields)
    THEN acc
    ELSE map_fields(fields, i + 1,
                    collect_field(acc,
                        MessageField_to_field_descriptor(
                            fields[i], acc.ctx, acc.messages)))

\* u64 + 1: the sum modulo 2^64, and whether it overflowed
U64AddOne(v) ==
    IF v[4] < Limb - 1 THEN [val |-> <<v[1], v[2], v[3], v[4] + 1>>, overflow |-> FALSE]
    ELSE IF v[3] < Limb - 1 THEN [val |-> <<v[1], v[2], v[3] + 1, 0>>, overflow |-> FALSE]
    ELSE IF v[2] < Limb - 1 THEN [val |-> <<v[1], v[2] + 1, 0, 0>>, overflow |-> FALSE]
    ELSE IF v[1] < Limb - 1 THEN [val |-> <<v[1] + 1, 0, 0, 0>>, overflow |-> FALSE]
    ELSE [val |-> <<0, 0, 0, 0>>, overflow |-> TRUE]

\* ReservedRange { start: Some(start), end: Some(end) } of two conversions
\* i32::try_from(..).unwrap(): a conversion that fails panics
reserved_range_of(start, end) ==
    [panicked |-> ~start.ok \/ ~end.ok,
     start |-> Some(start.val), end |-> Some(end.val)]

\* ast::ReservedRange::to_message_reserved_range.  When start.value + 1
\* overflows u64 the sum panics or wraps to 0 as the build has it; start
\* is then beyond i32 and its conversion panics in either build.
to_message_reserved_range(self) ==
    reserved_range_of(
        I32TryFromU64(self.start.value),
        CASE self.end.kind = "None" ->
                 I32TryFromU64(U64AddOne(self.start.value).val)
          [] self.end.kind = "Int" -> I32TryFromU64(self.end.value.value)
          [] self.end.kind = "Max" ->
                 [ok |-> TRUE, val |-> MAX_MESSAGE_FIELD_NUMBER + 1])

\* ast::ReservedRange::to_enum_reserved_range
to_enum_reserved_range(self) ==
    reserved_range_of(
        I32TryFromU64(self.start.value),
        CASE self.end.kind = "None" -> I32TryFromU64(self.start.value)
          [] self.end.kind = "Int" -> I32TryFromU64(self.end.value.value)
          [] self.end.kind = "Max" -> [ok |-> TRUE, val |-> I32_MAX])

\* ast::Reserved::ranges
Reserved_ranges(self) == IF self.kind = "Ranges" THEN self.ranges ELSE <<>>

\* ast::Reserved::names
Reserved_names(self) == IF self.kind = "Names" THEN self.names ELSE <<>>

\* the reserved ranges of a message, lowered
message_reserved_ranges(r) ==
    [i \in 1..Len(Reserved_ranges(r)) |->
        to_message_reserved_range(Reserved_ranges(r)[i])]

\* the names of a reserved statement, as strings
reserved_name_values(r) ==
    [i \in 1..Len(Reserved_names(r)) |-> Reserved_names(r)[i].value]

\* reserved.iter().flat_map(|r| r.ranges().map(|r|
\* r.to_message_reserved_range())): the ranges of all the statements, one
\* after the other
RECURSIVE flat_map_ranges(_)
flat_map_ranges(reserved) ==
    IF reserved = <<>>
    THEN <<>>
    ELSE message_reserved_ranges(Head(reserved))
             \o flat_map_ranges(Tail(reserved))

\* reserved.iter().flat_map(|r| r.names().map(|n| n.value.to_owned()))
RECURSIVE flat_map_names(_)
flat_map_names(reserved) ==
    IF reserved = <<>>
    THEN <<>>
    ELSE reserved_name_values(Head(reserved))
             \o flat_map_names(Tail(reserved))

\* what to_message_descriptor does not lower yet (todo!()): extend
\* blocks, enums, extension ranges, oneofs, options; and the panic of a
\* reserved range whose number is beyond i32
message_panics(self, ranges, ctx) ==
    IF \/ self.extends # <<>>
       \/ self.enums # <<>>
       \/ self.extensions # <<>>
       \/ self.oneofs # <<>>
       \/ self.options # <<>>
       \/ \E i \in 1..Len(ranges) : ranges[i].panicked
    THEN panic(ctx)
    ELSE ctx

RECURSIVE to_message_descriptor(_, _)
RECURSIVE map_messages(_, _, _)

\* one more message descriptor collected
collect_message(acc, r) ==
    [val |-> Append(acc.val, r.val), ctx |-> r.ctx]

\* messages.iter().map(|m| m.to_message_descriptor(ctx)).collect(), from the
\* i-th message on
map_messages(messages, i, acc) ==
    IF i > Len(messages)
    THEN acc
    ELSE map_messages(messages, i + 1,
                      collect_message(acc,
                          to_message_descriptor(messages[i], acc.ctx)))

\* to_message_descriptor, after the fields, the nested messages and the
\* reserved ranges: nested_type.extend(generated_nested_messages)
to_message_descriptor_reserved(self, field, nested, ranges) ==
    [val |-> [name |-> Some(self.name),
              field |-> field.val,
              extension |-> <<>>,
              nested_type |-> nested.val \o field.messages,
              enum_type |-> <<>>,
              extension_range |-> <<>>,
              oneof_decl |-> <<>>,
              options |-> None,
              reserved_range |->
                  [i \in 1..Len(ranges) |->
                      [start |-> ranges[i].start, end |-> ranges[i].end]],
              reserved_name |-> flat_map_names(self.reserved)],
     ctx |-> message_panics(self, ranges, nested.ctx)]

\* to_message_descriptor, after the fields
to_message_descriptor_fields(self, field) ==
    to_message_descriptor_reserved(
        self, field,
        map_messages(self.messages, 1, [val |-> <<>>, ctx |-> field.ctx]),
        flat_map_ranges(self.reserved))

\* ast::Message::to_message_descriptor
to_message_descriptor(self, ctx) ==
    to_message_descriptor_fields(
        self,
        map_fields(self.fields, 1,
                   [val |-> <<>>, ctx |-> ctx, messages |-> <<>>]))

\* the indices as they would be counted from 1
RECURSIVE import_indices_from_one(_, _, _)
import_indices_from_one(imports, kind, index) ==
    IF index >= Len(imports)
    THEN <<>>
    ELSE (IF imports[index + 1].kind = Some(kind)
          THEN <<index + 1>>
          ELSE <<>>) \o import_indices_from_one(imports, kind, index + 1)

\* self.imports.iter().enumerate().filter(|(_, i)| i.kind == Some(kind))
\*     .map(|(index, _)| index_to_i32(index)).collect(), from index on
\* (index counts from 0, as enumerate() does)
RECURSIVE import_indices(_, _, _)
import_indices(imports, kind, index) ==
    IF index >= Len(imports)
    THEN <<>>
    ELSE (IF imports[index + 1].kind = Some(kind)
          THEN <<index_to_i32(index)>>
          ELSE <<>>) \o import_indices(imports, kind, index + 1)

\* what to_file_descriptor does not lower yet (todo!()): enums, services,
\* extend blocks, options, and the source code info
file_panics(self, source_code, ctx) ==
    IF \/ self.enums # <<>>
       \/ self.services # <<>>
       \/ self.extends # <<>>
       \/ self.options # <<>>
       \/ source_code # None
    THEN panic(ctx)
    ELSE ctx

\* to_file_descriptor, after the messages are lowered: Ok(descriptor) when
\* ctx.errors is empty, else Err(ctx.errors); nothing when it panicked
to_file_descriptor_lowered(self, name, message_type, ctx) ==
    IF ctx.panicked
    THEN [ok |-> FALSE, val |-> None, errors |-> <<>>, panicked |-> TRUE]
    ELSE IF ctx.errors = <<>>
    THEN [ok |-> TRUE,
          val |-> [name |-> name,
                   dependency |->
                       [i \in 1..Len(self.imports) |-> self.imports[i].value],
                   public_dependency |->
                       import_indices(self.imports, "Public", 0),
                   weak_dependency |-> import_indices(self.imports, "Weak", 0),
                   message_type |-> message_type,
                   source_code_info |-> None,
                   syntax |-> Some(self.syntax)],
          errors |-> <<>>,
          panicked |-> FALSE]
    ELSE [ok |-> FALSE, val |-> None, errors |-> ctx.errors,
          panicked |-> FALSE]

\* to_file_descriptor, on the lowered messages [val, ctx]
to_file_descriptor_messages(self, name, source_code, messages) ==
    to_file_descriptor_lowered(self, name, messages.val,
                               file_panics(self, source_code, messages.ctx))

\* ast::File::to_file_descriptor, for source_code = None.
\* The result is [ok, val, errors, panicked]: Ok(val) or Err(errors).
to_file_descriptor(self, name) ==
    to_file_descriptor_messages(
        self, name, None,
        map_messages(self.messages, 1,
                     [val |-> <<>>,
                      ctx |-> [syntax |-> self.syntax, errors |-> <<>>,
                               panicked |-> FALSE]]))

(***************************************************************************)
(* The parser crate's entry point: src/protox-parse/src/lib.rs.            *)
(*                                                                         *)
(* A source text is [len, parsed]: its length in bytes (a usize) and the   *)
(* outcome of parse::parse_file on it, [ok, errors, ast].                  *)
(***************************************************************************)

\* the constructor as it would be if the first error stayed in the list
ParseError_new_first_kept(related, source_code) ==
    [kind |-> Head(related),
     related |-> related,
     source_code |-> source_code]

\* ParseError::new: related.remove(0) takes the first error out of the list
ParseError_new(related, source_code) ==
    [kind |-> Head(related),
     related |-> Tail(related),
     source_code |-> source_code]

\* parse::parse_file (the parser proper): part of the source text's model
parse_file(src) == src.parsed

\* generate::generate_file: the lowering of this crate, the same rules as
\* ast::File::to_file_descriptor
generate_file(ast, src) == to_file_descriptor(ast, None)

\* protox_parse::parse; the result is [ok, val, err]
parse(src) ==
    IF U64Gt(src.len, MAX_FILE_LEN_usize)
    THEN [ok |-> FALSE, val |-> None,
          err |-> Some(ParseError_new(<<"FileTooLarge">>, src.len)),
          parse_file_called |-> FALSE]
    ELSE LET ast == parse_file(src)
         IN  IF ~ast.ok
             THEN [ok |-> FALSE, val |-> None,
                   err |-> Some(ParseError_new(ast.errors, src.len)),
                   parse_file_called |-> TRUE]
             ELSE LET generated == generate_file(ast.ast, src)
                  IN  IF ~generated.ok
                      THEN [ok |-> FALSE, val |-> None,
                            err |-> Some(ParseError_new(generated.errors,
                                                        src.len)),
                            parse_file_called |-> TRUE]
                      ELSE [ok |-> TRUE, val |-> Some(generated.val),
                            err |-> None, parse_file_called |-> TRUE]

(***************************************************************************)
(* The compiler driver: src/src/compile/mod.rs.                            *)
(*                                                                         *)
(* A Result<_, Error> is [ok, kind, cycle, err, errors]: kind names the    *)
(* ErrorKind, cycle is CircularImport's text, err and errors are the       *)
(* primary error and the related ones of ParseErrors / CheckErrors.        *)
(* A ParsedFile is [descriptor, is_root] (the resolver is in memory, so    *)
(* path is None; the name map is not modelled).  file_names maps a name to *)
(* its index in files, counted from 0 as the code does.                    *)
(***************************************************************************)

\* the logical names the resolver knows, and the paths add_file is called with
Names == {"a", "b", "c"}

OutsidePath == "/outside"

Paths == Names \cup {OutsidePath}

OkUnit ==
    [ok |-> TRUE, kind |-> "Ok", cycle |-> "", err |-> None, errors |-> <<>>]

\* Error::from_kind
Error_from_kind(kind, cycle) ==
    [ok |-> FALSE, kind |-> kind, cycle |-> cycle, err |-> None,
     errors |-> <<>>]

\* Error::parse_errors: the first error is the primary one
Error_parse_errors(errors) ==
    [ok |-> FALSE, kind |-> "ParseErrors", cycle |-> "",
     err |-> Some(Head(errors)), errors |-> Tail(errors)]

\* Error::check_errors: the first error is the primary one
Error_check_errors(errors) ==
    [ok |-> FALSE, kind |-> "CheckErrors", cycle |-> "",
     err |-> Some(Head(errors)), errors |-> Tail(errors)]

\* self.resolver.resolve_path(path).or_else(|| path_to_file_name(path))
resolve_name(relative_path) ==
    IF relative_path \in Names THEN Some(relative_path) ELSE None

\* FileResolver::open_file: Ok(File { content, path: None }) or not found
open_file(name) ==
    IF fs[name].exists
    THEN [ok |-> TRUE, val |-> fs[name], err |-> OkUnit]
    ELSE [ok |-> FALSE, val |-> fs[name],
          err |-> Error_from_kind("FileNotFound", "")]

\* check_shadow(&file.path, relative_path): nothing shadows an in-memory file
check_shadow(path, relative_path) == OkUnit

\* transcode_file: the descriptor re-encoded as the other descriptor type
transcode_file(descriptor) ==
    [name |-> descriptor.name,
     dependency |-> descriptor.dependency,
     public_dependency |-> descriptor.public_dependency,
     weak_dependency |-> descriptor.weak_dependency,
     message_type |-> descriptor.message_type,
     source_code_info |-> descriptor.source_code_info,
     syntax |-> descriptor.syntax]

\* ParsedFile::name
ParsedFile_name(self) == self.descriptor.name[1]

\* ParsedFileMap::add as it would be without the insert into file_names
ParsedFileMap_add_unindexed(m, file) ==
    [m EXCEPT !.files = Append(m.files, file)]

\* ParsedFileMap::add as it would be with the file put first in the list
ParsedFileMap_add_front(m, file) ==
    [m EXCEPT
        !.file_names =
            [n \in DOMAIN m.file_names \cup {ParsedFile_name(file)} |->
                IF n = ParsedFile_name(file) THEN 0 ELSE m.file_names[n] + 1],
        !.files = <<file>> \o m.files]

\* ParsedFileMap::add, on the map m = [files, file_names, ..]
ParsedFileMap_add(m, file) ==
    [m EXCEPT
        !.file_names =
            [n \in DOMAIN m.file_names \cup {ParsedFile_name(file)} |->
                IF n = ParsedFile_name(file)
                THEN Len(m.files)
                ELSE m.file_names[n]],
        !.files = Append(m.files, file)]

\* the descriptor of check_with_names: with source text given, it carries
\* source_code_info
with_source_info(r, source_info) ==
    IF r.ok
    THEN [r EXCEPT !.val.source_code_info = source_info]
    ELSE r

\* check_with_names(ast, Some(name), source_info, &self.file_map): the
\* lowering of to_file_descriptor
check_with_names(ast, name, source_info, file_map) ==
    with_source_info(to_file_descriptor(ast, name), source_info)

\* .map_err(|errors| Error::check_errors(errors, ..)); the result is
\* [ok, val, err]
map_err_check_errors(r) ==
    IF r.ok
    THEN [ok |-> TRUE, val |-> r.val, err |-> OkUnit]
    ELSE [ok |-> FALSE, val |-> r.val, err |-> Error_check_errors(r.errors)]

\* Compiler::check_file; the result is [ok, val, err]
check_file(m, name, ast) ==
    map_err_check_errors(
        check_with_names(ast, Some(name),
                         IF include_source_info THEN Some("info") ELSE None,
                         m))

\* for import in import_stack { write!(&mut cycle, "{} -> ", import) },
\* from the i-th name on
RECURSIVE write_import_stack(_, _, _)
write_import_stack(cycle, import_stack, i) ==
    IF i > Len(import_stack)
    THEN cycle
    ELSE write_import_stack(cycle \o import_stack[i] \o " -> ",
                            import_stack, i + 1)

\* the cycle text as it would be without the repeated name at its end
cycle_text_unclosed(import_stack, file_name) ==
    write_import_stack("", import_stack, 1)

\* the cycle text of add_import
cycle_text(import_stack, file_name) ==
    write_import_stack("", import_stack, 1) \o file_name

(***************************************************************************)
(* One call of add_file or add_file_descriptor_proto works on              *)
(* m = [files, file_names, import_stack, opened, parsed, checked, steps]:   *)
(* the file map, the call's import stack, and the names the call has       *)
(* handed to resolver.open_file, to parse::parse and to check_file so far, *)
(* in order; steps is the one sequence of these, <<"open", n>>,            *)
(* <<"parse", n>>, <<"check", n>>, and <<"cycle", n>> where n was found on *)
(* the import stack.                                                       *)
(* add_import returns [m, res].  A function is written as the chain of its *)
(* steps: each step takes what the steps before it have computed.          *)
(***************************************************************************)
RECURSIVE add_import(_, _)
RECURSIVE add_imports(_, _, _)

\* the loop as it would be if it went through the remaining imports before
\* returning the error
add_imports_next_keep_going(r, imports, i) ==
    IF r.res.ok
    THEN add_imports(r.m, imports, i + 1)
    ELSE [m |-> add_imports(r.m, imports, i + 1).m, res |-> r.res]

\* the ? of `self.add_import(..)?` in a loop over the imports: go on with
\* the next import, or return the error
add_imports_next(r, imports, i) ==
    IF r.res.ok THEN add_imports(r.m, imports, i + 1) ELSE r

\* for import in &ast.imports { self.add_import(&import.value, ..)?; },
\* from the i-th import on
add_imports(m, imports, i) ==
    IF i > Len(imports)
    THEN [m |-> m, res |-> OkUnit]
    ELSE add_imports_next(add_import(m, imports[i]), imports, i)

\* the names of the import statements of an ast
import_values(ast) == [i \in 1..Len(ast.imports) |-> ast.imports[i].value]

\* add_import as it would be if it added the import as a root
add_import_checked_as_root(m, file_name, checked) ==
    IF ~checked.ok
    THEN [m |-> m, res |-> checked.err]
    ELSE [m |-> ParsedFileMap_add(m, [descriptor |-> checked.val,
                                      is_root |-> TRUE]),
          res |-> OkUnit]

\* add_import, after check_file: self.file_map.add(ParsedFile { .. })
add_import_checked(m, file_name, checked) ==
    IF ~checked.ok
    THEN [m |-> m, res |-> checked.err]
    ELSE [m |-> ParsedFileMap_add(m, [descriptor |-> checked.val,
                                      is_root |-> FALSE]),
          res |-> OkUnit]

\* the import stack as it would be if a finished import stayed on it
import_stack_kept(m) == m

\* import_stack.pop()
import_stack_pop(m) ==
    [m EXCEPT !.import_stack = SubSeq(@, 1, Len(@) - 1)]

\* add_import, after the loop over the imports: pop and check
add_import_imported(r, file_name, ast) ==
    IF ~r.res.ok
    THEN r
    ELSE add_import_checked(
             [import_stack_pop(r.m) EXCEPT
                 !.checked = Append(@, file_name),
                 !.steps = Append(@, <<"check", file_name>>)],
             file_name,
             check_file(r.m, file_name, ast))

\* add_import, after parse::parse
add_import_parsed(m, file_name, ast) ==
    IF ~ast.ok
    THEN [m |-> m, res |-> Error_parse_errors(ast.errors)]
    ELSE add_import_imported(
             add_imports([m EXCEPT !.import_stack = Append(@, file_name)],
                         import_values(ast.ast), 1),
             file_name, ast.ast)

\* add_import, after self.resolver.open_file(file_name)
add_import_opened(m, file_name, file) ==
    IF file.ok /\ U64Gt(file.val.len, MAX_FILE_LEN_usize)
    THEN [m |-> m, res |-> Error_from_kind("FileTooLarge", "")]
    ELSE IF ~file.ok
    THEN [m |-> m, res |-> file.err]
    ELSE add_import_parsed([m EXCEPT
                               !.parsed = Append(@, file_name),
                               !.steps = Append(@, <<"parse", file_name>>)],
                           file_name, parse_file(file.val))

\* Compiler::add_import
add_import(m, file_name) ==
    IF \E i \in 1..Len(m.import_stack) : m.import_stack[i] = file_name
    THEN [m |-> [m EXCEPT !.steps = Append(@, <<"cycle", file_name>>)],
          res |-> Error_from_kind("CircularImport",
                                  cycle_text(m.import_stack, file_name))]
    ELSE IF file_name \in DOMAIN m.file_names
    THEN [m |-> m, res |-> OkUnit]
    ELSE add_import_opened([m EXCEPT
                               !.opened = Append(@, file_name),
                               !.steps = Append(@, <<"open", file_name>>)],
                           file_name, open_file(file_name))

\* the map a call starts from
Call == [files |-> files, file_names |-> file_names, import_stack |-> <<>>,
         opened |-> <<>>, parsed |-> <<>>, checked |-> <<>>, steps |-> <<>>]

\* the marking as it would be if it made every file of the map a root
mark_root_all(m, i) ==
    [m EXCEPT !.files = [j \in 1..Len(m.files) |->
                            [m.files[j] EXCEPT !.is_root = TRUE]]]

\* parsed_file.is_root = true, on the file at index i (counted from 0)
mark_root(m, i) == [m EXCEPT !.files[i + 1].is_root = TRUE]

\* add_file, after check_file: self.file_map.add(ParsedFile { .. })
add_file_checked(m, name, checked) ==
    IF ~checked.ok
    THEN [m |-> m, res |-> checked.err]
    ELSE [m |-> ParsedFileMap_add(m, [descriptor |-> checked.val,
                                      is_root |-> TRUE]),
          res |-> OkUnit]

\* add_file, after the loop over the imports: check
add_file_imported(r, name, ast) ==
    IF ~r.res.ok
    THEN r
    ELSE add_file_checked([r.m EXCEPT
                              !.checked = Append(@, name),
                              !.steps = Append(@, <<"check", name>>)],
                          name, check_file(r.m, name, ast))

\* add_file, after parse::parse
add_file_parsed(m, name, ast) ==
    IF ~ast.ok
    THEN [m |-> m, res |-> Error_parse_errors(ast.errors)]
    ELSE add_file_imported(
             add_imports([m EXCEPT !.import_stack = <<name>>],
                         import_values(ast.ast), 1),
             name, ast.ast)

\* add_file, after self.resolver.open_file(&name)
add_file_opened(m, name, relative_path, file) ==
    IF ~file.ok
    THEN [m |-> m,
          res |-> IF file.err.kind = "FileNotFound"
                  THEN Error_from_kind("FileNotIncluded", "")
                  ELSE file.err]
    ELSE IF ~check_shadow(None, relative_path).ok
    THEN [m |-> m, res |-> check_shadow(None, relative_path)]
    ELSE IF U64Gt(file.val.len, MAX_FILE_LEN_usize)
    THEN [m |-> m, res |-> Error_from_kind("FileTooLarge", "")]
    ELSE add_file_parsed([m EXCEPT
                             !.parsed = Append(@, name),
                             !.steps = Append(@, <<"parse", name>>)],
                         name, parse_file(file.val))

\* add_file, after the path is resolved to Some(name)
add_file_named(m, name, relative_path) ==
    IF name \in DOMAIN m.file_names
    THEN IF ~check_shadow(None, relative_path).ok
         THEN [m |-> m, res |-> check_shadow(None, relative_path)]
         ELSE [m |-> mark_root(m, m.file_names[name]), res |-> OkUnit]
    ELSE add_file_opened([m EXCEPT
                             !.opened = Append(@, name),
                             !.steps = Append(@, <<"open", name>>)],
                         name, relative_path, open_file(name))

\* add_file, on the resolved name
add_file_resolved(m, name, relative_path) ==
    IF name = None
    THEN [m |-> m, res |-> Error_from_kind("FileNotIncluded", "")]
    ELSE add_file_named(m, name[1], relative_path)

\* Compiler::add_file; returns [m, res]
add_file(relative_path) ==
    add_file_resolved(Call, resolve_name(relative_path), relative_path)

\* NameMap::from_proto: the name map is not modelled, and building it succeeds
NameMap_from_proto(descriptor, m) == OkUnit

\* add_file_descriptor_proto, after the loop over the dependencies
add_file_descriptor_proto_imported(r, descriptor) ==
    IF ~r.res.ok
    THEN r
    ELSE IF ~NameMap_from_proto(descriptor, r.m).ok
    THEN [m |-> r.m, res |-> NameMap_from_proto(descriptor, r.m)]
    ELSE [m |-> ParsedFileMap_add(r.m, [descriptor |-> descriptor,
                                        is_root |-> TRUE]),
          res |-> OkUnit]

\* add_file_descriptor_proto, on the transcoded descriptor
add_file_descriptor_proto_transcoded(m, name, descriptor) ==
    add_file_descriptor_proto_imported(
        add_imports([m EXCEPT !.import_stack = <<name>>],
                    descriptor.dependency, 1),
        descriptor)

\* add_file_descriptor_proto as it would be if, like add_file, it marked a
\* file that is already in the map as a root
add_file_descriptor_proto_marking(descriptor) ==
    IF unwrap_or(descriptor.name, "") \in DOMAIN file_names
    THEN [m |-> mark_root(Call, file_names[unwrap_or(descriptor.name, "")]),
          res |-> OkUnit]
    ELSE add_file_descriptor_proto_transcoded(
             Call, unwrap_or(descriptor.name, ""), transcode_file(descriptor))

\* Compiler::add_file_descriptor_proto; returns [m, res]
add_file_descriptor_proto(descriptor) ==
    IF unwrap_or(descriptor.name, "") \in DOMAIN file_names
    THEN [m |-> Call, res |-> OkUnit]
    ELSE add_file_descriptor_proto_transcoded(
             Call, unwrap_or(descriptor.name, ""), transcode_file(descriptor))

\* the filter as it would be if it let every file through
filter_is_root_keep_all(fileseq, i) == SubSeq(fileseq, i, Len(fileseq))

\* files.iter().filter(|f| f.is_root), from the i-th file on
RECURSIVE filter_is_root(_, _)
filter_is_root(fileseq, i) ==
    IF i > Len(fileseq)
    THEN <<>>
    ELSE (IF fileseq[i].is_root THEN <<fileseq[i]>> ELSE <<>>)
         \o filter_is_root(fileseq, i + 1)

\* Compiler::file_descriptor_set: FileDescriptorSet { file }
file_descriptor_set ==
    LET selected == IF include_imports THEN files
                    ELSE filter_is_root(files, 1)
    IN  [file |-> [i \in 1..Len(selected) |->
                      transcode_file(selected[i].descriptor)]]

\* Compiler::encode_file_descriptor_set: the encoding of the set is kept as
\* the set itself
encode_file_descriptor_set ==
    LET selected == IF include_imports THEN files
                    ELSE filter_is_root(files, 1)
    IN  [file |-> [i \in 1..Len(selected) |-> selected[i].descriptor]]

(***************************************************************************)
(* The files of the resolver.                                              *)
(***************************************************************************)
\* the longest import list of a file of the resolver
MaxImports == 2

\* the most import statements in all the files of the resolver together
MaxEdges == 3

\* the longest dependency list of a descriptor given to
\* add_file_descriptor_proto
MaxProtoDeps == 1

\* The one file of the resolver that may be other than a plain well-formed
\* file, and the one name add_file_descriptor_proto is called with: the
\* driver treats all names alike, so which name it is does not matter.
SpecialName == "c"

\* the import lists: no name twice
ImportLists(max) ==
    {s \in UNION {[1..n -> Names] : n \in 0..max} :
        \A i, j \in 1..Len(s) : i # j => s[i] # s[j]}

\* an ast::Int written at position `start` with `width` characters
AstInt(negative, value, start, width) ==
    [negative |-> negative, value |-> value, span |-> <<start, start + width>>]

\* an ast::Field `optional int32 <name> = <number>;`
AstField(name, number) ==
    [kind |-> "Field", name |-> name, number |-> number,
     label |-> Some("Optional"), ty |-> "Int32", options |-> <<>>]

\* an ast::Message with fields, nested messages and reserved statements,
\* and nothing else in its body
AstMessage(name, fields, messages, reserved) ==
    [name |-> name, fields |-> fields, messages |-> messages,
     enums |-> <<>>, extensions |-> <<>>, extends |-> <<>>, oneofs |-> <<>>,
     options |-> <<>>, reserved |-> reserved]

\* an ast::File with imports and messages, and nothing else
AstFile(syntax, imports, messages) ==
    [syntax |-> syntax, imports |-> imports, messages |-> messages,
     enums |-> <<>>, services |-> <<>>, extends |-> <<>>, options |-> <<>>]

\* the ast of a file with the given imports and one message `M` with one
\* field numbered `value`
DriverAst(imports, value) ==
    AstFile("proto2",
            [i \in 1..Len(imports) |-> [value |-> imports[i], kind |-> None]],
            <<AstMessage("M",
                         <<AstField("i", AstInt(FALSE, U64(value), 33, 1))>>,
                         <<>>, <<>>)>>)

\* 2^31, one more than MAX_FILE_LEN
TwoTo31 == <<0, 0, 32768, 0>>

ParsedOk(ast) == [ok |-> TRUE, errors |-> <<>>, ast |-> ast]

ParsedErr(errors) == [ok |-> FALSE, errors |-> errors, ast |-> DriverAst(<<>>, 1)]

\* the contents a file of the resolver may have
PlainFiles ==
    {[exists |-> TRUE, len |-> U64(100), parsed |-> ParsedOk(DriverAst(s, 1))] :
        s \in ImportLists(MaxImports)}

SpecialFiles ==
    {[exists |-> TRUE, len |-> U64(100), parsed |-> ParsedOk(DriverAst(s, 0))] :
        s \in ImportLists(MaxImports)}
    \cup {[exists |-> FALSE, len |-> U64(0),
           parsed |-> ParsedOk(DriverAst(<<>>, 1))],
          [exists |-> TRUE, len |-> MAX_FILE_LEN_usize,
           parsed |-> ParsedOk(DriverAst(<<>>, 1))],
          [exists |-> TRUE, len |-> TwoTo31,
           parsed |-> ParsedOk(DriverAst(<<>>, 1))],
          [exists |-> TRUE, len |-> U64(100),
           parsed |-> ParsedErr(<<"UnexpectedToken", "InvalidImport">>)]}

\* the descriptors add_file_descriptor_proto is called with
ProtoDescriptors ==
    {[name |-> Some(n), dependency |-> d, public_dependency |-> <<>>,
      weak_dependency |-> <<>>, message_type |-> <<>>,
      source_code_info |-> None, syntax |-> Some("proto2")] :
        n \in {SpecialName}, d \in ImportLists(MaxProtoDeps)}

NoCall == [op |-> "new", arg |-> None, res |-> OkUnit,
           opened |-> <<>>, parsed |-> <<>>, checked |-> <<>>,
           steps |-> <<>>, import_stack |-> <<>>]

\* the number of import statements of the files of f
RECURSIVE Edges(_, _)
Edges(f, names) ==
    IF names = {}
    THEN 0
    ELSE LET n == CHOOSE x \in names : TRUE
         IN  Len(f[n].parsed.ast.imports) + Edges(f, names \ {n})

\* the resolvers
Resolvers ==
    {f \in [Names -> PlainFiles \cup SpecialFiles] :
        /\ \A n \in Names \ {SpecialName} : f[n] \in PlainFiles
        /\ Edges(f, Names) <= MaxEdges}

\* Compiler::with_file_resolver, over any resolver of the family
Init ==
    /\ fs \in Resolvers
    /\ files = <<>>
    /\ file_names = <<>>
    /\ include_imports = FALSE
    /\ include_source_info = FALSE
    /\ ret = NoCall
    /\ added_by_add_file = {}
    /\ added_by_proto = {}
    /\ source = [len |-> U64(0), parsed |-> ParsedOk(DriverAst(<<>>, 1))]
    /\ check_out = None
    /\ parse_out = None
    /\ info_out = None

\* compiler.include_source_info(yes)
IncludeSourceInfo ==
    \E yes \in BOOLEAN :
        /\ include_source_info' = yes
        /\ UNCHANGED <<fs, files, file_names, include_imports, ret,
                       added_by_add_file, added_by_proto, check_vars>>

\* compiler.include_imports(yes)
IncludeImports ==
    \E yes \in BOOLEAN :
        /\ include_imports' = yes
        /\ UNCHANGED <<fs, files, file_names, include_source_info, ret,
                       added_by_add_file, added_by_proto, check_vars>>

\* a call returns r = [m, res]: the file map is as the call left it
Return(op, arg, r) ==
    /\ files' = r.m.files
    /\ file_names' = r.m.file_names
    /\ ret' = [op |-> op, arg |-> arg,
               res |-> r.res, opened |-> r.m.opened,
               parsed |-> r.m.parsed, checked |-> r.m.checked,
               steps |-> r.m.steps,
               import_stack |-> r.m.import_stack]

\* compiler.add_file(relative_path)
AddFileCall(relative_path) ==
    /\ Return("add_file", Some(relative_path), add_file(relative_path))
    /\ added_by_add_file' =
           IF ret'.res.ok THEN added_by_add_file \cup {relative_path}
           ELSE added_by_add_file
    /\ UNCHANGED <<fs, include_imports, include_source_info,
                   added_by_proto, check_vars>>

AddFile == \E relative_path \in Paths : AddFileCall(relative_path)

\* compiler.add_file_descriptor_proto(descriptor)
AddFileDescriptorProtoCall(descriptor) ==
    /\ Return("add_file_descriptor_proto", descriptor.name,
              add_file_descriptor_proto(descriptor))
    /\ added_by_proto' =
           IF ret'.res.ok /\ descriptor.name[1] \notin DOMAIN file_names
           THEN added_by_proto \cup {descriptor.name[1]}
           ELSE added_by_proto
    /\ UNCHANGED <<fs, include_imports, include_source_info,
                   added_by_add_file, check_vars>>

AddFileDescriptorProto ==
    \E descriptor \in ProtoDescriptors : AddFileDescriptorProtoCall(descriptor)

Next ==
    \/ IncludeImports
    \/ AddFile
    \/ AddFileDescriptorProto

Spec == Init /\ [][Next]_vars

(***************************************************************************)
(* The inputs of the descriptor generator and of the parser entry point.   *)
(***************************************************************************)
\* the most fields of one message
MaxFields == 2

\* the longest import list of a checked file
MaxCheckImports == 2

\* the longest error list parse::parse_file returns
MaxErrors == 3

\* a field number as written: the sign, the value and the characters it takes
Written(negative, value, digits) ==
    [negative |-> negative, value |-> value,
     width |-> IF negative THEN digits + 1 ELSE digits]

\* the field numbers of the files with several fields: a valid and an invalid
ShapeNumbers == {Written(FALSE, U64(1), 1), Written(FALSE, U64(0), 1)}

\* the field numbers at and around the limits of to_field_number, with and
\* without a minus sign
BoundaryNumbers ==
    {Written(neg, U64(v[1]), v[2]) :
        neg \in BOOLEAN,
        v \in {<<0, 1>>, <<1, 1>>, <<5, 1>>, <<18999, 5>>, <<19000, 5>>,
               <<19500, 5>>, <<19999, 5>>, <<20000, 5>>, <<536870910, 9>>,
               <<536870911, 9>>, <<536870912, 9>>, <<2147483647, 10>>}}
    \cup {Written(neg, v, 10) :
            neg \in BOOLEAN, v \in {<<0, 0, 32768, 0>>, <<0, 1, 0, 1>>}}
    \cup {Written(neg, <<65535, 65535, 65535, 65535>>, 20) : neg \in BOOLEAN}

\* the fields of one message whose text starts at `base`: the j-th field's
\* number is written at base + 10 * j
FieldLists(numbers, base) ==
    {[j \in 1..Len(w) |->
         AstField("f", AstInt(w[j].negative, w[j].value, base + 10 * j,
                              w[j].width))] :
        w \in UNION {[1..n -> numbers] : n \in 0..MaxFields}}

\* the messages without nested messages
FlatMessages(numbers, base) ==
    {AstMessage("M", f, <<>>, <<>>) :
        f \in FieldLists(numbers, base)}

\* the messages with at most one nested message
Messages(numbers, base) ==
    {AstMessage("M", f, n, <<>>) :
        f \in FieldLists(numbers, base),
        n \in {<<>>} \cup {<<m>> : m \in FlatMessages(numbers, base + 50)}}

\* the message lists of a file: none, one message, or two of which the first
\* may hold a nested one
MessageLists ==
    {<<>>}
    \cup {<<m>> : m \in Messages(ShapeNumbers, 100)}
    \cup {<<m1, m2>> : m1 \in Messages(ShapeNumbers, 100),
                       m2 \in FlatMessages(ShapeNumbers, 200)}

\* a file with one message with one field
OneFieldFile(syntax, w) ==
    AstFile(syntax, <<>>,
            <<AstMessage("Foo",
                         <<AstField("i", AstInt(w.negative, w.value,
                                                33, w.width))>>,
                         <<>>, <<>>)>>)

ImportKinds == {None, Some("Public"), Some("Weak")}

\* the import lists of a checked file
CheckImportLists ==
    UNION {[1..n -> [value : Names, kind : ImportKinds]] :
               n \in 0..MaxCheckImports}

Syntaxes == {"proto2", "proto3"}

\* the files the descriptor generator is applied to
CheckedFiles ==
    {AstFile(s, <<>>, m) :
        s \in Syntaxes, m \in MessageLists}
    \cup {OneFieldFile(s, w) : s \in Syntaxes, w \in BoundaryNumbers}
    \cup {AstFile(s, i, m) :
            s \in Syntaxes, i \in CheckImportLists,
            m \in {<<>>} \cup {<<x>> : x \in FlatMessages(ShapeNumbers, 100)}}

\* the error lists of a text that does not parse
ParseErrorKinds == {"InvalidToken", "UnexpectedEof", "InvalidImport"}

ErrorLists == UNION {[1..n -> ParseErrorKinds] : n \in 1..MaxErrors}

\* the lengths at and around MAX_FILE_LEN
BoundaryLens ==
    {U64(0), U64(MAX_FILE_LEN - 1), MAX_FILE_LEN_usize, TwoTo31,
     <<0, 1, 0, 1>>, <<65535, 65535, 65535, 65535>>}

\* the source texts
Sources ==
    {[len |-> U64(100), parsed |-> ParsedOk(f)] : f \in CheckedFiles}
    \cup {[len |-> U64(100), parsed |-> ParsedErr(e)] : e \in ErrorLists}
    \cup {[len |-> l, parsed |-> p] :
            l \in BoundaryLens,
            p \in {ParsedOk(DriverAst(<<>>, 1)), ParsedOk(DriverAst(<<>>, 0)),
                   ParsedErr(<<"InvalidToken", "UnexpectedEof">>)}}

\* the driver is not used: a compiler over a resolver without files
InitCheck ==
    /\ source \in Sources
    /\ check_out = None
    /\ parse_out = None
    /\ info_out = None
    /\ fs = [n \in Names |-> [exists |-> FALSE, len |-> U64(0),
                              parsed |-> ParsedOk(DriverAst(<<>>, 1))]]
    /\ files = <<>>
    /\ file_names = <<>>
    /\ include_imports = FALSE
    /\ include_source_info = FALSE
    /\ ret = NoCall
    /\ added_by_add_file = {}
    /\ added_by_proto = {}

\* ast.to_file_descriptor(name, None, None), on the ast of a text that parses
ToFileDescriptor ==
    /\ check_out = None
    /\ source.parsed.ok
    /\ check_out' = Some(to_file_descriptor(source.parsed.ast,
                                            Some("root.proto")))
    /\ UNCHANGED <<source, parse_out, info_out, driver_vars>>

\* protox_parse::parse(source)
Parse ==
    /\ parse_out = None
    /\ parse_out' = Some(parse(source))
    /\ UNCHANGED <<source, check_out, info_out, driver_vars>>

NextCheck == ToFileDescriptor \/ Parse

SpecCheck == InitCheck /\ [][NextCheck]_vars

(***************************************************************************)
(* The driver and the parser entry point on files at and around the size   *)
(* bound: SpecSize.  Every file of the resolver exists and parses; what    *)
(* varies is the length of each file and who imports whom.                 *)
(***************************************************************************)
\* 2^32
TwoTo32 == <<0, 1, 0, 0>>

\* u64::MAX
U64Max == <<Limb - 1, Limb - 1, Limb - 1, Limb - 1>>

\* the lengths of the files
SizeLens == {U64(MAX_FILE_LEN - 1), MAX_FILE_LEN_usize, TwoTo31, TwoTo32, U64Max}

SizeFile(len, imports) ==
    [exists |-> TRUE, len |-> len, parsed |-> ParsedOk(DriverAst(imports, 1))]

\* a imports any of b and c, b may import c, c imports nothing
SizeResolvers ==
    {[n \in Names |->
         SizeFile(l[n], CASE n = "a" -> ia [] n = "b" -> ib [] OTHER -> <<>>)] :
        l \in [Names -> SizeLens],
        ia \in {<<>>, <<"b">>, <<"c">>, <<"b", "c">>, <<"c", "b">>},
        ib \in {<<>>, <<"c">>}}

InitSize ==
    /\ fs \in SizeResolvers
    /\ files = <<>>
    /\ file_names = <<>>
    /\ include_imports = FALSE
    /\ include_source_info = FALSE
    /\ ret = NoCall
    /\ added_by_add_file = {}
    /\ added_by_proto = {}
    /\ source = [len |-> fs["a"].len, parsed |-> fs["a"].parsed]
    /\ check_out = None
    /\ parse_out = None
    /\ info_out = None

\* protox_parse::parse(source), on the text of a file of the resolver
ParseFileText ==
    \E n \in Names :
        /\ source' = [len |-> fs[n].len, parsed |-> fs[n].parsed]
        /\ parse_out' = Some(parse(source'))
        /\ UNCHANGED <<check_out, info_out, driver_vars>>

NextSize == AddFile \/ ParseFileText

SpecSize == InitSize /\ [][NextSize]_vars

(***************************************************************************)
(* Properties.                                                             *)
(***************************************************************************)
Range(s) == {s[i] : i \in 1..Len(s)}

\* the names of a list of file descriptors, in order
DescriptorNames(s) == [i \in 1..Len(s) |-> s[i].name[1]]

\* the names of the file map, in insertion order
MapNames == [i \in 1..Len(files) |-> files[i].descriptor.name[1]]

\* the members of s that are in the set keep, in the order of s
RECURSIVE Restrict(_, _)
Restrict(s, keep) ==
    IF s = <<>>
    THEN <<>>
    ELSE (IF Head(s) \in keep THEN <<Head(s)>> ELSE <<>>)
         \o Restrict(Tail(s), keep)

\* in a list of file descriptors, every file comes after the files of the
\* list it depends on
DependencyFirst(s) ==
    \A i, j \in 1..Len(s) :
        s[j].name[1] \in Range(s[i].dependency) => j < i

\* C1: after any sequence of add_file / add_file_descriptor_proto calls,
\* successful or failed, the list file_descriptor_set returns (and the one
\* encode_file_descriptor_set encodes) is in dependency-first order: every
\* file comes after every file it imports that is also in the list; and
\* every import of a file of the map is in the map.
C1_DependencyFirstOrder ==
    /\ DependencyFirst(file_descriptor_set.file)
    /\ DependencyFirst(encode_file_descriptor_set.file)
    /\ DependencyFirst([i \in 1..Len(files) |-> files[i].descriptor])
    /\ \A i \in 1..Len(files) :
           Range(files[i].descriptor.dependency) \subseteq Range(MapNames)

\* a state where C1 is at work: the returned list holds a file added by
\* add_file_descriptor_proto, a file compiled from the resolver that
\* imports it, and a third file, after a call that failed
C1_Witness ==
    /\ ~ret.res.ok
    /\ added_by_proto # {}
    /\ Len(file_descriptor_set.file) = 3
    /\ \E i, j \in 1..3 :
           /\ j < i
           /\ file_descriptor_set.file[j].name[1] \in added_by_proto
           /\ file_descriptor_set.file[j].name[1]
                  \in Range(file_descriptor_set.file[i].dependency)

\* the descriptor the file map holds for a name
MapDescriptor(n) == files[file_names[n] + 1].descriptor

\* a returned list of descriptors: its names are `names`, in that order,
\* and each descriptor is the file map's descriptor of that name
Returns(list, names) ==
    /\ DescriptorNames(list) = names
    /\ \A i \in 1..Len(list) : list[i] = MapDescriptor(list[i].name[1])

\* the roots: the names a successful add_file was called for, and the names
\* add_file_descriptor_proto inserted
Roots == added_by_add_file \cup added_by_proto

Present(n) == n \in DOMAIN file_names

\* a content length above 2^31 - 1
TooLarge(len) == len[1] > 0 \/ len[2] > 0 \/ len[3] >= 32768

\* the resolver has a file n that is within the size bound and parses
Readable(n) == fs[n].exists /\ ~TooLarge(fs[n].len) /\ fs[n].parsed.ok

\* the names the file n imports
ImportsOf(n) == {fs[n].parsed.ast.imports[i].value :
                    i \in 1..Len(fs[n].parsed.ast.imports)}

\* x imports y, in the resolver's files
SourceEdge(x, y) == Readable(x) /\ y \in ImportsOf(x)

\* x imports y and add_file descends into x: x is not in the file map yet
Edge(x, y) == ~Present(x) /\ SourceEdge(x, y)

\* y is reached from x along E (in no step, or along a chain of E)
Reaches(x, y, E(_, _)) ==
    \E s \in UNION {[1..n -> Names] : n \in 1..Cardinality(Names)} :
        /\ s[1] = x
        /\ s[Len(s)] = y
        /\ \A i \in 1..(Len(s) - 1) : E(s[i], s[i + 1])

\* a cycle of E can be reached from p
CycleFrom(p, E(_, _)) ==
    \E x, y \in Names : Reaches(p, x, E) /\ E(x, y) /\ Reaches(y, x, E)

\* the names joined by " -> "
RECURSIVE JoinArrow(_)
JoinArrow(s) ==
    IF Len(s) = 1 THEN s[1] ELSE s[1] \o " -> " \o JoinArrow(Tail(s))

\* r is a CircularImport failure of add_file(p) whose text is the import
\* stack, from p down an import chain, closed by the name that repeats
CircularImportOf(r, p) ==
    /\ ~r.res.ok
    /\ r.res.kind = "CircularImport"
    /\ Len(r.import_stack) >= 1
    /\ r.import_stack[1] = p
    /\ \A i \in 1..(Len(r.import_stack) - 1) :
           SourceEdge(r.import_stack[i], r.import_stack[i + 1])
    /\ \E n \in Range(r.import_stack) :
           /\ SourceEdge(r.import_stack[Len(r.import_stack)], n)
           /\ r.res.cycle = JoinArrow(Append(r.import_stack, n))

\* C3 as stated: if the import graph reachable from the file passed to
\* add_file contains a cycle, add_file fails with CircularImport whose text
\* is the import stack joined by " -> " and closed by the repeated name,
\* and the file is not inserted into the file map.
C3_Original ==
    [][\A p \in Names :
          (AddFileCall(p) /\ ~Present(p) /\ CycleFrom(p, SourceEdge))
              => (CircularImportOf(ret', p) /\ p \notin DOMAIN file_names')]_vars

\* every file add_file(p) can come to is in the file map or is a readable
\* file that passes its check
AllSound(p) ==
    \A x \in Names :
        Reaches(p, x, Edge) =>
            \/ Present(x)
            \/ Readable(x) /\ to_file_descriptor(fs[x].parsed.ast, Some(x)).ok

\* C3, amended: if a cycle of imports can be reached from the file passed
\* to add_file through files that are not yet in the file map, add_file
\* fails and the file is not inserted; the failure is CircularImport when
\* every file that can be reached that way is readable and passes its check
\* (otherwise the first error met in depth-first source order is returned,
\* which may be another one); and the text of a CircularImport failure is
\* the import stack joined by " -> ", closed by the repeated name.
C3_CircularImport ==
    [][\A p \in Names :
          AddFileCall(p) =>
              /\ (~Present(p) /\ CycleFrom(p, Edge))
                     => (~ret'.res.ok /\ p \notin DOMAIN file_names')
              /\ (~Present(p) /\ CycleFrom(p, Edge) /\ AllSound(p))
                     => ret'.res.kind = "CircularImport"
              /\ ret'.res.kind = "CircularImport"
                     => (CircularImportOf(ret', p) /\ CycleFrom(p, Edge))]_vars

\* a state where C3 is at work: a imports b, b imports a, and add_file(a)
\* has failed with the cycle a -> b -> a, a file being in the map already
C3_Witness ==
    /\ ret.op = "add_file"
    /\ ret.arg = Some("a")
    /\ ret.res.kind = "CircularImport"
    /\ ret.res.cycle = "a -> b -> a"
    /\ ret.import_stack = <<"a", "b">>
    /\ "a" \notin DOMAIN file_names
    /\ Len(files) > 0

Opened(n) == n \in Range(ret.opened)

\* C5: the file-size bound is inclusive at MAX_FILE_LEN = 2^31 - 1 bytes,
\* and the same in parse(), add_file and add_import: a text or a root or
\* imported file of up to 2^31 - 1 bytes is not rejected for size (it is
\* handed to the parser), and one of 2^31 bytes or more is rejected with
\* FileTooLarge before it is parsed.
C5_FileSizeBound ==
    /\ parse_out # None =>
           /\ TooLarge(source.len) =>
                  /\ ~parse_out[1].ok
                  /\ parse_out[1].err[1].kind = "FileTooLarge"
                  /\ parse_out[1].err[1].related = <<>>
                  /\ ~parse_out[1].parse_file_called
           /\ ~TooLarge(source.len) =>
                  /\ parse_out[1].parse_file_called
                  /\ parse_out[1].ok
    /\ \A n \in Names :
           Opened(n) =>
               /\ TooLarge(fs[n].len) =>
                      /\ ret.res.kind = "FileTooLarge"
                      /\ ret.opened[Len(ret.opened)] = n
                      /\ n \notin Range(ret.parsed)
                      /\ ~Present(n)
               /\ ~TooLarge(fs[n].len) => n \in Range(ret.parsed)
    /\ ret.res.kind = "FileTooLarge" =>
           /\ ret.opened # <<>>
           /\ TooLarge(fs[ret.opened[Len(ret.opened)]].len)
    /\ \A n \in Names : Present(n) => ~TooLarge(fs[n].len)

\* a state where C5 is at work: add_file has opened a root file of exactly
\* 2^31 - 1 bytes, parsed it, and failed with FileTooLarge on its import of
\* exactly 2^31 bytes; and parse() has taken a text of 2^31 - 1 bytes
C5_Witness ==
    /\ ret.op = "add_file"
    /\ ret.res.kind = "FileTooLarge"
    /\ Len(ret.opened) = 2
    /\ fs[ret.opened[1]].len = <<0, 0, 32767, 65535>>
    /\ fs[ret.opened[2]].len = <<0, 0, 32768, 0>>
    /\ ret.parsed = <<ret.opened[1]>>
    /\ parse_out # None
    /\ source.len = <<0, 0, 32767, 65535>>
    /\ parse_out[1].ok

(***************************************************************************)
(* Field numbers, as the language defines them.                            *)
(***************************************************************************)
\* the u64 v is in [1, 536870911] (536870911 = 8191 * 2^16 + 65535)
InFieldRange(v) ==
    v[1] = 0 /\ v[2] = 0 /\ v[3] <= 8191 /\ (v[3] > 0 \/ v[4] >= 1)

\* the number is written without a minus sign and is in [1, 536870911]
ValidNumber(num) == ~num.negative /\ InFieldRange(num.value)

\* the number v, for v in the field range
NumberOf(v) == v[3] * Limb + v[4]

\* the checked file is one message with one field
OneField(ast) ==
    /\ Len(ast.messages) = 1
    /\ Len(ast.messages[1].fields) = 1
    /\ ast.messages[1].messages = <<>>

TheNumber(ast) == ast.messages[1].fields[1].number

\* C6: a message field number is accepted only if it is written without a
\* minus sign and is in [1, 536870911]; 1 and 536870911 are accepted; and
\* 0, any number with a minus sign, and 536870912 or more (also beyond i32)
\* are each rejected with one InvalidMessageNumber error whose span is the
\* number's span.
C6_FieldNumberRange ==
    (check_out # None /\ OneField(source.parsed.ast)) =>
        LET num == TheNumber(source.parsed.ast)
            out == check_out[1]
        IN  /\ out.ok =>
                   /\ ValidNumber(num)
                   /\ out.val.message_type[1].field[1].number
                          = Some(NumberOf(num.value))
            /\ ~ValidNumber(num) =>
                   /\ ~out.ok
                   /\ out.errors = <<[kind |-> "InvalidMessageNumber",
                                      span |-> num.span]>>
            /\ (~num.negative /\ num.value \in {<<0, 0, 0, 1>>,
                                                 <<0, 0, 8191, 65535>>})
                   => out.ok

\* a state where C6 is at work: the field number 536870912, written at
\* 33..42, has been rejected with one InvalidMessageNumber at that span
C6_Witness ==
    /\ check_out # None
    /\ OneField(source.parsed.ast)
    /\ ~TheNumber(source.parsed.ast).negative
    /\ TheNumber(source.parsed.ast).value = <<0, 0, 8192, 0>>
    /\ ~check_out[1].ok
    /\ check_out[1].errors = <<[kind |-> "InvalidMessageNumber",
                                span |-> <<33, 42>>]>>

\* the u64 v is in the reserved range 19000..=19999
InReservedRange(v) ==
    v[1] = 0 /\ v[2] = 0 /\ v[3] = 0 /\ v[4] >= 19000 /\ v[4] <= 19999

\* C7: a message field number in the reserved range 19000..=19999 is
\* rejected with ReservedMessageNumber (not InvalidMessageNumber), while
\* 18999 and 20000 are accepted.
C7_ReservedNumbersRejected ==
    (check_out # None /\ OneField(source.parsed.ast)
        /\ ~TheNumber(source.parsed.ast).negative) =>
        LET num == TheNumber(source.parsed.ast)
            out == check_out[1]
        IN  /\ InReservedRange(num.value) =>
                   /\ ~out.ok
                   /\ out.errors = <<[kind |-> "ReservedMessageNumber",
                                      span |-> num.span]>>
            /\ num.value \in {<<0, 0, 0, 18999>>, <<0, 0, 0, 20000>>}
                   => out.ok

(***************************************************************************)
(* The field numbers of a file, in the order the lowering comes to them:   *)
(* message by message, a message's own fields before its nested messages.  *)
(***************************************************************************)
RECURSIVE NumbersOfMessage(_)
RECURSIVE NumbersOfMessages(_)

NumbersOfMessages(messages) ==
    IF messages = <<>>
    THEN <<>>
    ELSE NumbersOfMessage(Head(messages)) \o NumbersOfMessages(Tail(messages))

NumbersOfMessage(message) ==
    [j \in 1..Len(message.fields) |-> message.fields[j].number]
        \o NumbersOfMessages(message.messages)

\* one InvalidMessageNumber error for each number of the list that is not
\* a valid field number, in the order of the list
RECURSIVE ExpectedErrors(_)
ExpectedErrors(numbers) ==
    IF numbers = <<>>
    THEN <<>>
    ELSE (IF ValidNumber(Head(numbers))
          THEN <<>>
          ELSE <<[kind |-> "InvalidMessageNumber",
                  span |-> Head(numbers).span]>>)
         \o ExpectedErrors(Tail(numbers))

\* the number of fields of the descriptors of a list of messages
RECURSIVE FieldCount(_)
FieldCount(descriptors) ==
    IF descriptors = <<>>
    THEN 0
    ELSE Len(Head(descriptors).field) + FieldCount(Head(descriptors).nested_type)
         + FieldCount(Tail(descriptors))

\* C8: check errors accumulate instead of stopping at the first one:
\* to_file_descriptor returns a descriptor exactly when no field number of
\* the file is offending (the descriptor then holds every field), and
\* otherwise returns no descriptor and the complete, non-empty list of the
\* errors, one for each offending field number of every message, in the
\* order the fields are visited.
C8_CheckErrorsAccumulate ==
    check_out # None =>
        LET numbers == NumbersOfMessages(source.parsed.ast.messages)
            out == check_out[1]
        IN  /\ out.ok <=> ExpectedErrors(numbers) = <<>>
            /\ out.ok =>
                   /\ out.errors = <<>>
                   /\ out.val # None
                   /\ FieldCount(out.val.message_type) = Len(numbers)
            /\ ~out.ok =>
                   /\ out.val = None
                   /\ out.errors # <<>>
                   /\ out.errors = ExpectedErrors(numbers)

\* a state where C8 is at work: a file whose first message has an offending
\* field, a valid one, and a nested message with an offending field, and
\* whose second message has an offending field after a valid one; all
\* three errors have been returned
C8_Witness ==
    /\ check_out # None
    /\ ~check_out[1].ok
    /\ Len(source.parsed.ast.messages) = 2
    /\ Len(NumbersOfMessages(source.parsed.ast.messages)) = 5
    /\ [i \in 1..5 |->
           ValidNumber(NumbersOfMessages(source.parsed.ast.messages)[i])]
           = <<FALSE, TRUE, FALSE, TRUE, FALSE>>
    /\ Len(source.parsed.ast.messages[1].messages) = 1
    /\ [i \in 1..Len(check_out[1].errors) |-> check_out[1].errors[i].span[1]]
           = <<110, 160, 220>>

\* the error list a failing parse() is built from
OriginalErrors ==
    IF TooLarge(source.len)
    THEN <<"FileTooLarge">>
    ELSE IF ~source.parsed.ok
    THEN source.parsed.errors
    ELSE ExpectedErrors(NumbersOfMessages(source.parsed.ast.messages))

\* C9: a failure built from a non-empty ordered error list reports the
\* first error as the primary one and the remaining errors, in their
\* original order, as related: prepending the primary error to the related
\* list gives back exactly the original list.
C9_PrimaryAndRelated ==
    (parse_out # None /\ ~parse_out[1].ok) =>
        LET err == parse_out[1].err[1]
        IN  /\ OriginalErrors # <<>>
            /\ err.kind = OriginalErrors[1]
            /\ err.related = Tail(OriginalErrors)
            /\ <<err.kind>> \o err.related = OriginalErrors
            /\ Len(err.related) = Len(OriginalErrors) - 1

\* a state where C9 is at work: a text with three parse errors, the first
\* and the last of the same kind, has failed with the first as primary and
\* the other two as related, in order
C9_Witness ==
    /\ parse_out # None
    /\ ~parse_out[1].ok
    /\ source.parsed.errors = <<"InvalidToken", "UnexpectedEof", "InvalidToken">>
    /\ parse_out[1].err[1].kind = "InvalidToken"
    /\ parse_out[1].err[1].related = <<"UnexpectedEof", "InvalidToken">>

\* the list s of numbers is strictly increasing
StrictlyIncreasing(s) == \A i, j \in 1..Len(s) : i < j => s[i] < s[j]

\* C10: in an emitted file descriptor, dependency lists the imported file
\* names in source order, one entry per import statement, and
\* public_dependency and weak_dependency are strictly increasing lists of
\* indices into dependency: index i is in public_dependency exactly when
\* the i-th import (counted from 0) is public, in weak_dependency exactly
\* when it is weak; the two are disjoint and every index is below the
\* length of dependency.
C10_DependencyIndices ==
    (check_out # None /\ check_out[1].ok) =>
        LET imports == source.parsed.ast.imports
            d == check_out[1].val
        IN  /\ Len(d.dependency) = Len(imports)
            /\ \A i \in 1..Len(imports) : d.dependency[i] = imports[i].value
            /\ StrictlyIncreasing(d.public_dependency)
            /\ StrictlyIncreasing(d.weak_dependency)
            /\ Range(d.public_dependency) =
                   {i \in 0..(Len(imports) - 1) :
                       imports[i + 1].kind = Some("Public")}
            /\ Range(d.weak_dependency) =
                   {i \in 0..(Len(imports) - 1) :
                       imports[i + 1].kind = Some("Weak")}
            /\ Range(d.public_dependency) \cap Range(d.weak_dependency) = {}
            /\ \A i \in Range(d.public_dependency) \cup Range(d.weak_dependency) :
                   i >= 0 /\ i < Len(d.dependency)

\* a state where C10 is at work: a descriptor emitted for a file that
\* imports the same name twice, first weak and then public
C10_Witness ==
    /\ check_out # None
    /\ check_out[1].ok
    /\ check_out[1].val.dependency = <<"b", "b">>
    /\ check_out[1].val.weak_dependency = <<0>>
    /\ check_out[1].val.public_dependency = <<1>>

(***************************************************************************)
(* The descriptor generator on messages with map fields, labelled fields,  *)
(* nested messages and reserved statements: SpecLower.                     *)
(***************************************************************************)
MaxLowerFields == 2

\* an ast::Map `map<int32, string> <name> = <number>;`
AstMap(name, number) ==
    [kind |-> "Map", name |-> name, number |-> number, label |-> None,
     key_ty |-> "Int32", ty |-> "String", options |-> <<>>]

\* an ast::Field `<label> int32 <name> = <number>;`
AstLabelledField(label, name, number) ==
    [AstField(name, number) EXCEPT !.label = label]

\* the names of the fields of a message, by position
LowerFieldNames == <<"x", "y", "z">>

\* what a field may be written as
LowerFieldForms == {"map", "plain", "optional", "repeated"}

\* the j-th field of a message, written in the given form
LowerField(form, j) ==
    IF form = "map"
    THEN AstMap(LowerFieldNames[j], AstInt(FALSE, U64(j), 20 * j, 1))
    ELSE AstLabelledField(
             CASE form = "plain" -> None
               [] form = "optional" -> Some("Optional")
               [] form = "repeated" -> Some("Repeated"),
             LowerFieldNames[j], AstInt(FALSE, U64(j), 20 * j, 1))

LowerFieldLists ==
    UNION {{[j \in 1..n |-> LowerField(w[j], j)] :
               w \in [1..n -> LowerFieldForms]} : n \in 0..MaxLowerFields}

\* the nested messages a message declares
LowerNested ==
    {<<>>,
     <<AstMessage("Nest", <<>>, <<>>, <<>>)>>,
     <<AstMessage("Nest", <<>>, <<>>, <<>>),
       AstMessage("Quz", <<>>, <<>>, <<>>)>>,
     <<AstMessage("Quz", <<LowerField("map", 1)>>, <<>>, <<>>),
       AstMessage("Nest", <<>>, <<>>, <<>>)>>}

\* an ast::ReservedRange `<start>` / `<start> to <end>` / `<start> to max`
AstRange(start, kind, end) ==
    [start |-> AstInt(FALSE, U64(start), 0, 1),
     end |-> [kind |-> kind, value |-> AstInt(FALSE, U64(end), 0, 1)]]

\* `reserved <ranges>;`
AstReservedRanges(ranges) ==
    [kind |-> "Ranges", ranges |-> ranges, names |-> <<>>]

\* `reserved <names>;`
AstReservedNames(names) ==
    [kind |-> "Names", ranges |-> <<>>,
     names |-> [i \in 1..Len(names) |-> [value |-> names[i]]]]

\* the reserved statements of a message
LowerReserved ==
    {<<>>,
     <<AstReservedRanges(<<AstRange(4, "Int", 5)>>)>>,
     <<AstReservedRanges(<<AstRange(4, "None", 0), AstRange(5, "None", 0)>>)>>,
     <<AstReservedRanges(<<AstRange(2, "None", 0), AstRange(9, "Int", 11)>>),
       AstReservedNames(<<"foo", "bar">>),
       AstReservedRanges(<<AstRange(40, "Max", 0)>>),
       AstReservedNames(<<"baz">>)>>}

\* the files that are lowered: one message `Bar`
LowerFiles ==
    {AstFile(s, <<>>, <<AstMessage("Bar", f, n, r)>>) :
        s \in Syntaxes, f \in LowerFieldLists, n \in LowerNested,
        r \in LowerReserved}

InitLower ==
    /\ source \in {[len |-> U64(100), parsed |-> ParsedOk(f)] : f \in LowerFiles}
    /\ check_out = None
    /\ parse_out = None
    /\ info_out = None
    /\ fs = [n \in Names |-> [exists |-> FALSE, len |-> U64(0),
                              parsed |-> ParsedOk(DriverAst(<<>>, 1))]]
    /\ files = <<>>
    /\ file_names = <<>>
    /\ include_imports = FALSE
    /\ include_source_info = FALSE
    /\ ret = NoCall
    /\ added_by_add_file = {}
    /\ added_by_proto = {}

NextLower == ToFileDescriptor

SpecLower == InitLower /\ [][NextLower]_vars

(***************************************************************************)
(* Properties of the lowering of map fields, proto3 optional fields,       *)
(* nested messages and reserved ranges.                                    *)
(***************************************************************************)
\* the message `Bar` of the lowered text, and its descriptor
LoweredAst == source.parsed.ast.messages[1]

Lowered == check_out # None /\ check_out[1].ok

LoweredMessage == check_out[1].val.message_type[1]

\* the name of the entry message of a map field
EntryName(name) ==
    CASE name = "x" -> "XEntry" [] name = "y" -> "YEntry" [] name = "z" -> "ZEntry"

\* the positions of the map fields of a message
MapFields(m) == {j \in 1..Len(m.fields) : m.fields[j].kind = "Map"}

\* the entry message a map field asks for
IsEntryOf(d, f) ==
    /\ d.name = Some(EntryName(f.name))
    /\ d.options # None /\ d.options[1].map_entry = Some(TRUE)
    /\ Len(d.field) = 2
    /\ d.field[1].name = Some("key") /\ d.field[1].number = Some(1)
    /\ d.field[2].name = Some("value") /\ d.field[2].number = Some(2)

\* C11: every map field of a lowered message has exactly one nested entry
\* message (map_entry, key = 1, value = 2), and the field is lowered as a
\* repeated field of the type of that message
C11_MapEntryGenerated ==
    Lowered =>
        \A j \in MapFields(LoweredAst) :
            /\ Cardinality({i \in 1..Len(LoweredMessage.nested_type) :
                   IsEntryOf(LoweredMessage.nested_type[i],
                             LoweredAst.fields[j])}) = 1
            /\ LoweredMessage.field[j].label = Some("LABEL_REPEATED")
            /\ LoweredMessage.field[j].type = Some("TYPE_Message")
            /\ LoweredMessage.field[j].type_name # None

\* the field at position j is declared `optional` in a proto3 file
Proto3Optional(j) ==
    /\ source.parsed.ast.syntax = "proto3"
    /\ LoweredAst.fields[j].label = Some("Optional")

\* the synthetic oneof of the field at position j: it is named `_<name>`,
\* the field's oneof_index points to it and no other field's does
HasSyntheticOneof(m, j) ==
    /\ m.field[j].oneof_index # None
    /\ m.field[j].oneof_index[1] + 1 \in 1..Len(m.oneof_decl)
    /\ m.oneof_decl[m.field[j].oneof_index[1] + 1].name
           = Some("_" \o m.field[j].name[1])
    /\ \A k \in 1..Len(m.field) :
           m.field[k].oneof_index = m.field[j].oneof_index => k = j

\* C12: a proto3 field declared `optional` has proto3_optional = true and
\* a synthetic oneof `_<name>` holding exactly that field; any other field
\* has proto3_optional unset
C12_Proto3OptionalSyntheticOneof ==
    Lowered =>
        \A j \in 1..Len(LoweredAst.fields) :
            IF Proto3Optional(j)
            THEN /\ LoweredMessage.field[j].proto3_optional = Some(TRUE)
                 /\ HasSyntheticOneof(LoweredMessage, j)
            ELSE LoweredMessage.field[j].proto3_optional = None

\* the part of C12 about proto3_optional alone
Proto3OptionalFlag ==
    Lowered =>
        \A j \in 1..Len(LoweredAst.fields) :
            LoweredMessage.field[j].proto3_optional
                = IF Proto3Optional(j) THEN Some(TRUE) ELSE None

\* the positions of the map fields of a message, in source order
RECURSIVE MapFieldOrder(_, _)
MapFieldOrder(m, j) ==
    IF j > Len(m.fields)
    THEN <<>>
    ELSE (IF m.fields[j].kind = "Map" THEN <<j>> ELSE <<>>)
             \o MapFieldOrder(m, j + 1)

\* the user-declared nested messages are the first of nested_type, in
\* source order
UserNestedFirst(ast, m) ==
    /\ Len(m.nested_type) >= Len(ast.messages)
    /\ \A n \in 1..Len(ast.messages) :
           m.nested_type[n].name = Some(ast.messages[n].name)

\* the synthetic nested messages follow, in the order of their fields
SyntheticNestedAfter(ast, m) ==
    /\ Len(m.nested_type) = Len(ast.messages) + Len(MapFieldOrder(ast, 1))
    /\ \A k \in 1..Len(MapFieldOrder(ast, 1)) :
           m.nested_type[Len(ast.messages) + k].name
               = Some(EntryName(ast.fields[MapFieldOrder(ast, 1)[k]].name))

\* C13: the N-th user-declared nested message is at nested_type[N], and
\* the synthetic nested messages come after all of them, in the source
\* order of the fields that generate them
C13_NestedTypeOrder ==
    Lowered =>
        /\ UserNestedFirst(LoweredAst, LoweredMessage)
        /\ SyntheticNestedAfter(LoweredAst, LoweredMessage)

\* the part of C13 about the user-declared nested messages alone
UserNestedInOrder ==
    Lowered => UserNestedFirst(LoweredAst, LoweredMessage)

(***************************************************************************)
(* The lowering of reserved ranges, for messages and for enums: SpecRange. *)
(* `source` is a list of ranges as written, `check_out` the descriptor     *)
(* ranges they are lowered to.                                             *)
(***************************************************************************)
MaxRanges == 2

\* a range over u64 numbers
AstRange64(start, kind, end) ==
    [start |-> AstInt(FALSE, start, 0, 1),
     end |-> [kind |-> kind, value |-> AstInt(FALSE, end, 0, 1)]]

RangeStarts ==
    {U64(1), U64(4), U64(5), U64(MAX_MESSAGE_FIELD_NUMBER), U64(I32_MAX),
     TwoTo31, U64Max}

RangeEnds == {U64(5), U64(11), U64(MAX_MESSAGE_FIELD_NUMBER), TwoTo31}

\* one range: `n`, `n to m` or `n to max`
SingleRanges ==
    {AstRange64(s, k, U64(0)) : s \in RangeStarts, k \in {"None", "Max"}}
    \cup {AstRange64(s, "Int", e) : s \in RangeStarts, e \in RangeEnds}

\* the ranges of the lists of several ranges
SmallRanges ==
    {AstRange(4, "None", 0), AstRange(5, "None", 0), AstRange(4, "Int", 5),
     AstRange(9, "Int", 11)}

RangeLists ==
    {<<r>> : r \in SingleRanges}
    \cup UNION {[1..n -> SmallRanges] : n \in 2..MaxRanges}

InitRange ==
    /\ source \in {[ranges |-> l] : l \in RangeLists}
    /\ check_out = None
    /\ parse_out = None
    /\ info_out = None
    /\ fs = [n \in Names |-> [exists |-> FALSE, len |-> U64(0),
                              parsed |-> ParsedOk(DriverAst(<<>>, 1))]]
    /\ files = <<>>
    /\ file_names = <<>>
    /\ include_imports = FALSE
    /\ include_source_info = FALSE
    /\ ret = NoCall
    /\ added_by_add_file = {}
    /\ added_by_proto = {}

\* r.to_message_reserved_range() on each range
ToMessageReservedRange ==
    /\ check_out = None
    /\ check_out' = Some([scope |-> "message",
                          ranges |-> [i \in 1..Len(source.ranges) |->
                              to_message_reserved_range(source.ranges[i])]])
    /\ UNCHANGED <<source, parse_out, info_out, driver_vars>>

\* r.to_enum_reserved_range() on each range
ToEnumReservedRange ==
    /\ check_out = None
    /\ check_out' = Some([scope |-> "enum",
                          ranges |-> [i \in 1..Len(source.ranges) |->
                              to_enum_reserved_range(source.ranges[i])]])
    /\ UNCHANGED <<source, parse_out, info_out, driver_vars>>

NextRange == ToMessageReservedRange \/ ToEnumReservedRange

SpecRange == InitRange /\ [][NextRange]_vars

\* the value of a u64 that is an i32
I32Of(v) == I32TryFromU64(v).val

\* the last number a written range holds (inclusive), for numbers that are
\* field numbers: `n` holds n, `n to m` holds n..m, `n to max` holds n..max
WrittenLast(r, max) ==
    CASE r.end.kind = "None" -> I32Of(r.start.value)
      [] r.end.kind = "Int" -> I32Of(r.end.value.value)
      [] r.end.kind = "Max" -> max

\* the numbers of a written range are field numbers
FieldNumbers(r) ==
    /\ U64Gt(U64(MAX_MESSAGE_FIELD_NUMBER + 1), r.start.value)
    /\ r.end.kind = "Int" =>
           U64Gt(U64(MAX_MESSAGE_FIELD_NUMBER + 1), r.end.value.value)

\* the numbers probed for membership in a range
Probes == 0..13

\* the probed numbers a descriptor range list covers: [start, end) in a
\* message, [start, end] in an enum
Covered(scope, ranges) ==
    {n \in Probes :
        \E i \in 1..Len(ranges) :
            /\ ranges[i].start[1] <= n
            /\ IF scope = "message"
               THEN n < ranges[i].end[1]
               ELSE n <= ranges[i].end[1]}

\* the probed numbers a written range list holds
WrittenNumbers(ranges, max) ==
    {n \in Probes :
        \E i \in 1..Len(ranges) :
            /\ I32Of(ranges[i].start.value) <= n
            /\ n <= WrittenLast(ranges[i], max)}

\* C14: a written range `start to end` is lowered with start = start and
\* end = end + 1 in a message, end = end in an enum; `n` is the range n to
\* n; `max` is 536870911 in a message and i32::MAX in an enum; so a range
\* list covers, as descriptor ranges, the numbers it holds as written
C14_ReservedRangeEnds ==
    check_out # None =>
        /\ \A i \in 1..Len(source.ranges) :
               FieldNumbers(source.ranges[i]) =>
                   /\ ~check_out[1].ranges[i].panicked
                   /\ check_out[1].ranges[i].start
                          = Some(I32Of(source.ranges[i].start.value))
                   /\ check_out[1].ranges[i].end
                          = IF check_out[1].scope = "message"
                            THEN Some(WrittenLast(source.ranges[i],
                                          MAX_MESSAGE_FIELD_NUMBER) + 1)
                            ELSE Some(WrittenLast(source.ranges[i], I32_MAX))
        /\ (\A i \in 1..Len(source.ranges) : FieldNumbers(source.ranges[i]))
               => Covered(check_out[1].scope, check_out[1].ranges)
                      = WrittenNumbers(source.ranges,
                            IF check_out[1].scope = "message"
                            THEN MAX_MESSAGE_FIELD_NUMBER
                            ELSE I32_MAX)

\* the part of C14 that holds: the enum lowering, and in a message the
\* ranges written `n` and `n to max`
ReservedRangeEndsButMessageTo ==
    check_out # None =>
        \A i \in 1..Len(source.ranges) :
            (/\ FieldNumbers(source.ranges[i])
             /\ \/ check_out[1].scope = "enum"
                \/ source.ranges[i].end.kind # "Int") =>
                /\ ~check_out[1].ranges[i].panicked
                /\ check_out[1].ranges[i].start
                       = Some(I32Of(source.ranges[i].start.value))
                /\ check_out[1].ranges[i].end
                       = IF check_out[1].scope = "message"
                         THEN Some(WrittenLast(source.ranges[i],
                                       MAX_MESSAGE_FIELD_NUMBER) + 1)
                         ELSE Some(WrittenLast(source.ranges[i], I32_MAX))

(***************************************************************************)
(* The source-code-info builder (check/span.rs).                           *)
(*                                                                         *)
(* A method on `&mut self` (the Context [path, locations]) takes the path  *)
(* it is called with and returns the locations it pushes, in the order it  *)
(* pushes them; the path is as it was when the method returns, since every *)
(* push is in with_path_item / with_path_items, which pop it again:        *)
(* with_path_item(item, f) is f on Append(path, item).  A Location is      *)
(* [path, span, comments], comments None where the code leaves the         *)
(* defaults.  A span is a pair <<start, end>> of byte offsets.             *)
(***************************************************************************)
\* the length of every line of the source text, the newline included
LineLen == 40

\* LineResolver::resolve_span: <<line, column, end_line, end_column>>,
\* zero-based, of a text of one-byte characters
resolve_span(span) ==
    <<span[1] \div LineLen, span[1] % LineLen,
      span[2] \div LineLen, span[2] % LineLen>>

\* Context::add_location
add_location(path, span) ==
    <<[path |-> path, span |-> resolve_span(span), comments |-> None]>>

\* Context::add_location_for
add_location_for(path, path_item, span) ==
    add_location(Append(path, path_item), span)

\* Context::add_location_with_comments
add_location_with_comments(path, span, comments) ==
    <<[path |-> path, span |-> resolve_span(span),
       comments |-> Some(comments)]>>

\* `let number: i32 = 0; // TODO`: the tag the builder gives every option
OPTION_NUMBER == 0

\* Context::visit_options, from the i-th option on
RECURSIVE visit_options_from(_, _, _)
visit_options_from(path, options, i) ==
    IF i > Len(options)
    THEN <<>>
    ELSE add_location(path, options[i].span)
             \o add_location_for(path, OPTION_NUMBER, options[i].span)
             \o visit_options_from(path, options, i + 1)

\* Context::visit_options
visit_options(path, options) == visit_options_from(path, options, 1)

\* the loop of visit_options_list, from the i-th option on
RECURSIVE visit_options_list_from(_, _, _)
visit_options_list_from(path, options, i) ==
    IF i > Len(options)
    THEN <<>>
    ELSE add_location_for(path, OPTION_NUMBER, options[i].span)
             \o visit_options_list_from(path, options, i + 1)

\* Context::visit_options_list
visit_options_list(path, options) ==
    add_location(path, options.span)
        \o visit_options_list_from(path, options.options, 1)

\* `if let Some(options) = .. { with_path_item(OPTIONS, visit_options_list) }`
visit_some_options_list(path, tag, options) ==
    IF options = None
    THEN <<>>
    ELSE visit_options_list(Append(path, tag), options[1])

\* `if let Some(span) = .. { add_location_for(tag, span) }`
add_some_location_for(path, tag, span) ==
    IF span = None THEN <<>> ELSE add_location_for(path, tag, span[1])

Field_NAME == 1
Field_NUMBER == 3
Field_LABEL == 4
Field_TYPE == 5
Field_TYPE_NAME == 6
Field_DEFAULT_VALUE == 7
Field_OPTIONS == 8

\* visit_field: `match &field.kind`
visit_field_kind(path, field) ==
    CASE field.kind.kind = "Normal" /\ field.kind.named ->
             add_location_for(path, Field_TYPE_NAME, field.kind.name_span)
      [] field.kind.kind = "Normal" /\ ~field.kind.named ->
             add_location_for(path, Field_TYPE, field.kind.ty_span)
      [] field.kind.kind = "Group" ->
             add_location_for(path, Field_TYPE, field.kind.ty_span)
                 \o add_location_for(path, Field_TYPE_NAME, field.name_span)
      [] field.kind.kind = "Map" ->
             add_location_for(path, Field_TYPE_NAME, field.kind.ty_span)

\* Context::visit_field
visit_field(path, field) ==
    add_location_with_comments(path, field.span, field.comments)
        \o add_location_for(path, Field_NAME, field.name_span)
        \o add_location_for(path, Field_NUMBER, field.number_span)
        \o add_some_location_for(path, Field_LABEL, field.label)
        \o visit_field_kind(path, field)
        \o add_some_location_for(path, Field_DEFAULT_VALUE,
                                 field.default_value)
        \o visit_some_options_list(path, Field_OPTIONS, field.options)

Range_START == 1
Range_END == 2
ExtensionRange_OPTIONS == 3

\* visit_extensions: the ranges of one statement, from the i-th on; count
\* is the number of ranges visited before
RECURSIVE visit_extension_ranges(_, _, _, _)
visit_extension_ranges(path, extension, i, count) ==
    IF i > Len(extension.ranges)
    THEN <<>>
    ELSE add_location(Append(path, count), extension.ranges[i].span)
             \o add_location_for(Append(path, count), Range_START,
                                 extension.ranges[i].start_span)
             \o add_location_for(Append(path, count), Range_END,
                                 extension.ranges[i].end_span)
             \o visit_some_options_list(Append(path, count),
                                        ExtensionRange_OPTIONS,
                                        extension.options)
             \o visit_extension_ranges(path, extension, i + 1, count + 1)

\* Context::visit_extensions, from the i-th statement on
RECURSIVE visit_extensions_from(_, _, _, _)
visit_extensions_from(path, extensions, i, count) ==
    IF i > Len(extensions)
    THEN <<>>
    ELSE add_location_with_comments(path, extensions[i].span,
                                    extensions[i].comments)
             \o visit_extension_ranges(path, extensions[i], 1, count)
             \o visit_extensions_from(path, extensions, i + 1,
                                      count + Len(extensions[i].ranges))

\* Context::visit_extensions
visit_extensions(path, extensions) ==
    visit_extensions_from(path, extensions, 1, 0)

\* visit_reserved_ranges: the ranges of one statement, from the i-th on
RECURSIVE visit_ranges(_, _, _, _)
visit_ranges(path, ranges, i, count) ==
    IF i > Len(ranges)
    THEN <<>>
    ELSE add_location(Append(path, count), ranges[i].span)
             \o add_location_for(Append(path, count), Range_START,
                                 ranges[i].start_span)
             \o add_location_for(Append(path, count), Range_END,
                                 ranges[i].end_span)
             \o visit_ranges(path, ranges, i + 1, count + 1)

\* Context::visit_reserved_ranges, from the i-th statement on
RECURSIVE visit_reserved_ranges_from(_, _, _, _)
visit_reserved_ranges_from(path, reserveds, i, count) ==
    IF i > Len(reserveds)
    THEN <<>>
    ELSE add_location_with_comments(path, reserveds[i].span,
                                    reserveds[i].comments)
             \o visit_ranges(path, reserveds[i].ranges, 1, count)
             \o visit_reserved_ranges_from(path, reserveds, i + 1,
                                           count + Len(reserveds[i].ranges))

\* Context::visit_reserved_ranges
visit_reserved_ranges(path, reserveds) ==
    visit_reserved_ranges_from(path, reserveds, 1, 0)

\* visit_reserved_names: the names of one statement, from the i-th on
RECURSIVE visit_names(_, _, _, _)
visit_names(path, names, i, count) ==
    IF i > Len(names)
    THEN <<>>
    ELSE add_location_for(path, count, names[i].span)
             \o visit_names(path, names, i + 1, count + 1)

\* Context::visit_reserved_names, from the i-th statement on
RECURSIVE visit_reserved_names_from(_, _, _, _)
visit_reserved_names_from(path, reserveds, i, count) ==
    IF i > Len(reserveds)
    THEN <<>>
    ELSE add_location_with_comments(path, reserveds[i].span,
                                    reserveds[i].comments)
             \o visit_names(path, reserveds[i].names, 1, count)
             \o visit_reserved_names_from(path, reserveds, i + 1,
                                          count + Len(reserveds[i].names))

\* Context::visit_reserved_names
visit_reserved_names(path, reserveds) ==
    visit_reserved_names_from(path, reserveds, 1, 0)

Extend_FIELD_EXTENDEE == 2

\* visit_extends: the fields of one block, from the i-th on
RECURSIVE visit_extend_fields(_, _, _, _)
visit_extend_fields(path, extend, i, count) ==
    IF i > Len(extend.fields)
    THEN <<>>
    ELSE visit_field(Append(path, count), extend.fields[i])
             \o add_location_for(Append(path, count), Extend_FIELD_EXTENDEE,
                                 extend.extendee_span)
             \o visit_extend_fields(path, extend, i + 1, count + 1)

\* Context::visit_extends, from the i-th block on
RECURSIVE visit_extends_from(_, _, _, _)
visit_extends_from(path, extends, i, count) ==
    IF i > Len(extends)
    THEN <<>>
    ELSE add_location_with_comments(path, extends[i].span,
                                    extends[i].comments)
             \o visit_extend_fields(path, extends[i], 1, count)
             \o visit_extends_from(path, extends, i + 1,
                                   count + Len(extends[i].fields))

\* Context::visit_extends
visit_extends(path, extends) == visit_extends_from(path, extends, 1, 0)

Oneof_NAME == 1
Oneof_OPTIONS == 2

\* Context::visit_oneof
visit_oneof(path, oneof) ==
    IF oneof.source = "Oneof"
    THEN add_location(path, oneof.span)
             \o add_location_for(path, Oneof_NAME, oneof.name_span)
             \o visit_options(Append(path, Oneof_OPTIONS), oneof.options)
    ELSE <<>>

EnumValue_NAME == 1
EnumValue_NUMBER == 2
EnumValue_OPTIONS == 3

\* Context::visit_enum_value
visit_enum_value(path, value) ==
    add_location_with_comments(path, value.span, value.comments)
        \o add_location_for(path, EnumValue_NAME, value.name_span)
        \o add_location_for(path, EnumValue_NUMBER, value.number_span)
        \o visit_some_options_list(path, EnumValue_OPTIONS, value.options)

\* the loop of with_path_items over the values of an enum
RECURSIVE each_enum_value(_, _, _)
each_enum_value(path, values, i) ==
    IF i > Len(values)
    THEN <<>>
    ELSE visit_enum_value(Append(path, i - 1), values[i])
             \o each_enum_value(path, values, i + 1)

Enum_NAME == 1
Enum_VALUE == 2
Enum_OPTIONS == 3
Enum_RESERVED_RANGE == 4
Enum_RESERVED_NAME == 5

\* enu.reserved_ranges() / body.reserved_ranges(): the statements that
\* hold ranges
reserved_ranges(reserved) == SelectSeq(reserved, LAMBDA r : r.kind = "Ranges")

\* enu.reserved_names() / body.reserved_names()
reserved_names(reserved) == SelectSeq(reserved, LAMBDA r : r.kind = "Names")

\* Context::visit_enum
visit_enum(path, enu) ==
    add_location_with_comments(path, enu.span, enu.comments)
        \o add_location_for(path, Enum_NAME, enu.name_span)
        \o each_enum_value(Append(path, Enum_VALUE), enu.values, 1)
        \o visit_options(Append(path, Enum_OPTIONS), enu.options)
        \o visit_reserved_ranges(Append(path, Enum_RESERVED_RANGE),
                                 reserved_ranges(enu.reserved))
        \o visit_reserved_names(Append(path, Enum_RESERVED_NAME),
                                reserved_names(enu.reserved))

\* the loop over enums as it would be if it visited the last enum first
RECURSIVE each_enum_reversed(_, _, _)
each_enum_reversed(path, enums, i) ==
    IF i > Len(enums)
    THEN <<>>
    ELSE each_enum_reversed(path, enums, i + 1)
             \o visit_enum(Append(path, i - 1), enums[i])

\* the loop of with_path_items over enums
RECURSIVE each_enum(_, _, _)
each_enum(path, enums, i) ==
    IF i > Len(enums)
    THEN <<>>
    ELSE visit_enum(Append(path, i - 1), enums[i])
             \o each_enum(path, enums, i + 1)

Method_NAME == 1
Method_INPUT_TYPE == 2
Method_OUTPUT_TYPE == 3
Method_OPTIONS == 4
Method_CLIENT_STREAMING == 5
Method_SERVER_STREAMING == 6

\* Context::visit_method
visit_method(path, method) ==
    add_location_with_comments(path, method.span, method.comments)
        \o add_location_for(path, Method_NAME, method.name_span)
        \o add_location_for(path, Method_INPUT_TYPE, method.input_ty_span)
        \o add_location_for(path, Method_OUTPUT_TYPE, method.output_ty_span)
        \o add_some_location_for(path, Method_CLIENT_STREAMING,
                                 method.client_streaming)
        \o add_some_location_for(path, Method_SERVER_STREAMING,
                                 method.server_streaming)
        \o visit_options(Append(path, Method_OPTIONS), method.options)

\* the loop of with_path_items over the methods of a service
RECURSIVE each_method(_, _, _)
each_method(path, methods, i) ==
    IF i > Len(methods)
    THEN <<>>
    ELSE visit_method(Append(path, i - 1), methods[i])
             \o each_method(path, methods, i + 1)

Service_NAME == 1
Service_METHOD == 2
Service_OPTIONS == 3

\* Context::visit_service
visit_service(path, service) ==
    add_location_with_comments(path, service.span, service.comments)
        \o add_location_for(path, Service_NAME, service.name_span)
        \o each_method(Append(path, Service_METHOD), service.methods, 1)
        \o visit_options(Append(path, Service_OPTIONS), service.options)

\* the loop of with_path_items over services
RECURSIVE each_service(_, _, _)
each_service(path, services, i) ==
    IF i > Len(services)
    THEN <<>>
    ELSE visit_service(Append(path, i - 1), services[i])
             \o each_service(path, services, i + 1)

Message_NAME == 1
Message_FIELD == 2
Message_NESTED_TYPE == 3
Message_ENUM_TYPE == 4
Message_EXTENSION_RANGE == 5
Message_EXTENSION == 6
Message_OPTIONS == 7
Message_ONEOF_DECL == 8
Message_RESERVED_RANGE == 9
Message_RESERVED_NAME == 10

\* the loop of with_path_items over the fields of a message: map keys and
\* values have no location
RECURSIVE each_field(_, _, _)
each_field(path, fields, i) ==
    IF i > Len(fields)
    THEN <<>>
    ELSE (IF fields[i].source = "Field"
          THEN visit_field(Append(path, i - 1), fields[i].ast)
          ELSE <<>>)
             \o each_field(path, fields, i + 1)

\* the loop of with_path_items over oneofs
RECURSIVE each_oneof(_, _, _)
each_oneof(path, oneofs, i) ==
    IF i > Len(oneofs)
    THEN <<>>
    ELSE visit_oneof(Append(path, i - 1), oneofs[i])
             \o each_oneof(path, oneofs, i + 1)

RECURSIVE visit_message(_, _)
RECURSIVE each_message(_, _, _)

\* the loop of with_path_items over messages
each_message(path, messages, i) ==
    IF i > Len(messages)
    THEN <<>>
    ELSE visit_message(Append(path, i - 1), messages[i])
             \o each_message(path, messages, i + 1)

\* Context::visit_message; message.ast is [source, span, comments,
\* name_span, body], for a group the span, comments and name of its field;
\* a map entry has no location
visit_message(path, message) ==
    IF message.ast.source = "Map"
    THEN <<>>
    ELSE add_location_with_comments(path, message.ast.span,
                                    message.ast.comments)
             \o add_location_for(path, Message_NAME, message.ast.name_span)
             \o each_field(Append(path, Message_FIELD), message.fields, 1)
             \o visit_extends(Append(path, Message_EXTENSION),
                              message.ast.body.extends)
             \o each_oneof(Append(path, Message_ONEOF_DECL),
                           message.oneofs, 1)
             \o each_message(Append(path, Message_NESTED_TYPE),
                             message.messages, 1)
             \o each_enum(Append(path, Message_ENUM_TYPE),
                          message.ast.body.enums, 1)
             \o visit_options(Append(path, Message_OPTIONS),
                              message.ast.body.options)
             \o visit_extensions(Append(path, Message_EXTENSION_RANGE),
                                 message.ast.body.extensions)
             \o visit_reserved_ranges(
                    Append(path, Message_RESERVED_RANGE),
                    reserved_ranges(message.ast.body.reserved))
             \o visit_reserved_names(
                    Append(path, Message_RESERVED_NAME),
                    reserved_names(message.ast.body.reserved))

File_PACKAGE == 2
File_DEPENDENCY == 3
File_MESSAGE_TYPE == 4
File_ENUM_TYPE == 5
File_SERVICE == 6
File_EXTENSION == 7
File_OPTIONS == 8
File_PUBLIC_DEPENDENCY == 10
File_WEAK_DEPENDENCY == 11
File_SYNTAX == 12

\* file.ast.public_imports() / weak_imports(): the imports of the kind
imports_of_kind(imports, kind) ==
    SelectSeq(imports, LAMBDA i : i.kind = Some(kind))

\* the loop of with_path_items over imports, with their comments
RECURSIVE each_import(_, _, _)
each_import(path, imports, i) ==
    IF i > Len(imports)
    THEN <<>>
    ELSE add_location_with_comments(Append(path, i - 1), imports[i].span,
                                    imports[i].comments)
             \o each_import(path, imports, i + 1)

\* the loop of with_path_items over public or weak imports
RECURSIVE each_import_of_kind(_, _, _)
each_import_of_kind(path, imports, i) ==
    IF i > Len(imports)
    THEN <<>>
    ELSE add_location(Append(path, i - 1), imports[i].span)
             \o each_import_of_kind(path, imports, i + 1)

\* visit_file: the package
visit_file_package(path, file) ==
    IF file.ast.package = None
    THEN <<>>
    ELSE add_location_with_comments(Append(path, File_PACKAGE),
                                    file.ast.package[1].span,
                                    file.ast.package[1].comments)

\* visit_file: the syntax statement
visit_file_syntax(path, file) ==
    IF file.ast.syntax_span = None
    THEN <<>>
    ELSE add_location_with_comments(Append(path, File_SYNTAX),
                                    file.ast.syntax_span[1][1],
                                    file.ast.syntax_span[1][2])

\* Context::visit_file
visit_file(path, file) ==
    add_location(path, file.ast.span)
        \o visit_file_package(path, file)
        \o each_import(Append(path, File_DEPENDENCY), file.ast.imports, 1)
        \o each_import_of_kind(Append(path, File_PUBLIC_DEPENDENCY),
                               imports_of_kind(file.ast.imports, "Public"), 1)
        \o each_import_of_kind(Append(path, File_WEAK_DEPENDENCY),
                               imports_of_kind(file.ast.imports, "Weak"), 1)
        \o each_message(Append(path, File_MESSAGE_TYPE), file.messages, 1)
        \o each_enum(Append(path, File_ENUM_TYPE), file.ast.enums, 1)
        \o each_service(Append(path, File_SERVICE), file.ast.services, 1)
        \o visit_extends(Append(path, File_EXTENSION), file.ast.extends)
        \o visit_options(Append(path, File_OPTIONS), file.ast.options)
        \o visit_file_syntax(path, file)

\* ir::File::get_source_code_info: SourceCodeInfo { location }, from the
\* Context { path: vec![], locations: vec![] }
get_source_code_info(self) == [location |-> visit_file(<<>>, self)]

(***************************************************************************)
(* The builder and the generator on the same written file: SpecInfo.       *)
(*                                                                         *)
(* A written file is [items, body]: the kinds of its top-level             *)
(* declarations in the order they are written, and the kinds of the        *)
(* declarations in the body of each of its messages.  The p-th top-level   *)
(* declaration is written at the bytes 100 p .. 100 p + 90, the q-th       *)
(* declaration of a body at 10 q .. 10 q + 8 after the start of its        *)
(* message.  IrOf is the ir::File the builder walks, AstOf the ast::File   *)
(* the generator lowers.                                                   *)
(***************************************************************************)
MaxItems == 3
MaxBodyItems == 3

TopKinds ==
    {"syntax", "package", "import", "public_import", "message", "enum",
     "service", "extend", "option"}

BodyKinds ==
    {"field", "field_options", "group", "map", "oneof", "message", "enum",
     "option", "extend", "extensions1", "extensions2", "reserved1",
     "reserved2", "names2"}

\* the positions of the declarations of the given kinds, in written order
Positions(items, kinds) ==
    SelectSeq([i \in 1..Len(items) |-> i], LAMBDA i : items[i] \in kinds)

\* the span of a declaration written at `base`
ItemSpan(base, len) == <<base, base + len>>

TopBase(p) == 100 * p

BodyBase(base, q) == base + 10 * q

\* the number of ranges or names of a statement
StatementLen(kind) ==
    IF kind \in {"extensions2", "reserved2", "names2"} THEN 2 ELSE 1

\* an ast::Field of span.rs, written at b
IrField(kind, b) ==
    [span |-> ItemSpan(b, 8), comments |-> "field",
     name_span |-> <<b + 3, b + 4>>, number_span |-> <<b + 6, b + 7>>,
     label |-> IF kind \in {"field", "field_options"}
               THEN Some(<<b, b + 1>>)
               ELSE None,
     kind |-> [kind |-> CASE kind = "group" -> "Group"
                          [] kind = "map" -> "Map"
                          [] OTHER -> "Normal",
               named |-> FALSE,
               ty_span |-> <<b + 2, b + 3>>,
               name_span |-> <<b + 2, b + 3>>],
     default_value |-> None,
     options |-> IF kind = "field_options"
                 THEN Some([span |-> <<b + 7, b + 8>>,
                            options |-> <<[span |-> <<b + 7, b + 8>>]>>])
                 ELSE None]

\* a range of a statement written at b, the j-th of it
IrRange(b, j) ==
    [span |-> <<b + 2 * j, b + 2 * j + 1>>,
     start_span |-> <<b + 2 * j, b + 2 * j>>,
     end_span |-> <<b + 2 * j + 1, b + 2 * j + 1>>]

\* an ast::Extensions written at b
IrExtensions(kind, b) ==
    [span |-> ItemSpan(b, 8), comments |-> "extensions",
     ranges |-> [j \in 1..StatementLen(kind) |-> IrRange(b, j)],
     options |-> None]

\* an ast::Reserved written at b
IrReserved(kind, b) ==
    [kind |-> IF kind = "names2" THEN "Names" ELSE "Ranges",
     span |-> ItemSpan(b, 8), comments |-> "reserved",
     ranges |-> IF kind = "names2"
                THEN <<>>
                ELSE [j \in 1..StatementLen(kind) |-> IrRange(b, j)],
     names |-> IF kind = "names2"
               THEN [j \in 1..StatementLen(kind) |->
                        [span |-> <<b + 2 * j, b + 2 * j + 1>>]]
               ELSE <<>>]

\* an ast::Extend written at b, with two fields
IrExtend(b, len) ==
    [span |-> ItemSpan(b, len), comments |-> "extend",
     extendee_span |-> <<b + 1, b + 1>>,
     fields |-> <<IrField("field", b + 2) , IrField("field", b + 4)>>]

\* an ast::Enum written at b, with one value and no body else
IrEnum(b, len) ==
    [span |-> ItemSpan(b, len), comments |-> "enum",
     name_span |-> <<b + 1, b + 2>>,
     values |-> <<[span |-> <<b + 3, b + 6>>, comments |-> "value",
                   name_span |-> <<b + 3, b + 4>>,
                   number_span |-> <<b + 5, b + 6>>,
                   options |-> None]>>,
     options |-> <<>>,
     reserved |-> <<>>]

\* an ast::Service written at b, with one method
IrService(b) ==
    [span |-> ItemSpan(b, 90), comments |-> "service",
     name_span |-> <<b + 1, b + 2>>,
     methods |-> <<[span |-> <<b + 10, b + 40>>, comments |-> "method",
                    name_span |-> <<b + 11, b + 12>>,
                    input_ty_span |-> <<b + 13, b + 14>>,
                    output_ty_span |-> <<b + 16, b + 17>>,
                    client_streaming |-> None,
                    server_streaming |-> Some(<<b + 15, b + 16>>),
                    options |-> <<>>]>>,
     options |-> <<>>]

\* an ir::Oneof of a written oneof
IrOneof(b) ==
    [source |-> "Oneof", span |-> ItemSpan(b, 8),
     name_span |-> <<b + 1, b + 2>>, options |-> <<>>]

FieldKinds == {"field", "field_options", "group", "map"}

\* an ir::Message of a written message with the given body: its nested
\* messages are the written ones, then those of its groups and maps
RECURSIVE IrMessage(_, _, _)
IrMessage(b, len, body) ==
    [ast |-> [source |-> "Message", span |-> ItemSpan(b, len),
              comments |-> "message", name_span |-> <<b + 8, b + 9>>,
              body |->
                  [extends |->
                       [j \in 1..Len(Positions(body, {"extend"})) |->
                           IrExtend(BodyBase(b, Positions(body, {"extend"})[j]), 8)],
                   enums |->
                       [j \in 1..Len(Positions(body, {"enum"})) |->
                           IrEnum(BodyBase(b, Positions(body, {"enum"})[j]), 8)],
                   options |->
                       [j \in 1..Len(Positions(body, {"option"})) |->
                           [span |-> ItemSpan(
                               BodyBase(b, Positions(body, {"option"})[j]), 8)]],
                   extensions |->
                       [j \in 1..Len(Positions(body, {"extensions1", "extensions2"})) |->
                           IrExtensions(
                               body[Positions(body, {"extensions1", "extensions2"})[j]],
                               BodyBase(b, Positions(body, {"extensions1", "extensions2"})[j]))],
                   reserved |->
                       [j \in 1..Len(Positions(body, {"reserved1", "reserved2", "names2"})) |->
                           IrReserved(
                               body[Positions(body, {"reserved1", "reserved2", "names2"})[j]],
                               BodyBase(b, Positions(body, {"reserved1", "reserved2", "names2"})[j]))]]],
     fields |->
         [j \in 1..Len(Positions(body, FieldKinds)) |->
             [source |-> "Field",
              ast |-> IrField(body[Positions(body, FieldKinds)[j]],
                              BodyBase(b, Positions(body, FieldKinds)[j]))]],
     oneofs |->
         [j \in 1..Len(Positions(body, {"oneof"})) |->
             IrOneof(BodyBase(b, Positions(body, {"oneof"})[j]))],
     messages |->
         [j \in 1..Len(Positions(body, {"message"})) |->
             IrMessage(BodyBase(b, Positions(body, {"message"})[j]), 8, <<>>)]
         \o [j \in 1..Len(Positions(body, {"group", "map"})) |->
                [ast |-> [source |->
                              IF body[Positions(body, {"group", "map"})[j]] = "group"
                              THEN "Group"
                              ELSE "Map",
                          span |-> ItemSpan(
                              BodyBase(b, Positions(body, {"group", "map"})[j]), 8),
                          comments |-> "field",
                          name_span |->
                              <<BodyBase(b, Positions(body, {"group", "map"})[j]) + 3,
                                BodyBase(b, Positions(body, {"group", "map"})[j]) + 4>>,
                          body |-> [extends |-> <<>>, enums |-> <<>>,
                                    options |-> <<>>, extensions |-> <<>>,
                                    reserved |-> <<>>]],
                 fields |-> <<>>, oneofs |-> <<>>, messages |-> <<>>]]]

\* the import kinds of the written imports
WrittenImportKind(kind) ==
    IF kind = "public_import" THEN Some("Public") ELSE None

\* the ir::File of a written file
IrOf(w) ==
    [ast |->
         [span |-> <<0, TopBase(Len(w.items) + 1)>>,
          package |->
              IF Positions(w.items, {"package"}) = <<>>
              THEN None
              ELSE Some([span |-> ItemSpan(
                             TopBase(Positions(w.items, {"package"})[1]), 90),
                         comments |-> "package"]),
          syntax_span |->
              IF Positions(w.items, {"syntax"}) = <<>>
              THEN None
              ELSE Some(<<ItemSpan(
                              TopBase(Positions(w.items, {"syntax"})[1]), 90),
                          "syntax">>),
          imports |->
              [j \in 1..Len(Positions(w.items, {"import", "public_import"})) |->
                  [span |-> ItemSpan(TopBase(
                       Positions(w.items, {"import", "public_import"})[j]), 90),
                   comments |-> "import",
                   kind |-> WrittenImportKind(
                       w.items[Positions(w.items, {"import", "public_import"})[j]])]],
          enums |->
              [j \in 1..Len(Positions(w.items, {"enum"})) |->
                  IrEnum(TopBase(Positions(w.items, {"enum"})[j]), 90)],
          services |->
              [j \in 1..Len(Positions(w.items, {"service"})) |->
                  IrService(TopBase(Positions(w.items, {"service"})[j]))],
          extends |->
              [j \in 1..Len(Positions(w.items, {"extend"})) |->
                  IrExtend(TopBase(Positions(w.items, {"extend"})[j]), 90)],
          options |->
              [j \in 1..Len(Positions(w.items, {"option"})) |->
                  [span |-> ItemSpan(
                      TopBase(Positions(w.items, {"option"})[j]), 90)]]],
     messages |->
         [j \in 1..Len(Positions(w.items, {"message"})) |->
             IrMessage(TopBase(Positions(w.items, {"message"})[j]), 90, w.body)]]

\* the name of the declaration written at position q
ItemName(q) == <<"a", "b", "c", "d", "e", "f">>[q]

\* the number of the j-th range of the statement written at position q
RangeNumber(q, j) == 10 * q + j

\* the ast::MessageField of a written field
AstFieldOf(kind, q) ==
    CASE kind = "map" -> AstMap(ItemName(q), AstInt(FALSE, U64(q), 10 * q + 6, 1))
      [] kind = "group" ->
             [AstField(ItemName(q), AstInt(FALSE, U64(q), 10 * q + 6, 1))
                 EXCEPT !.kind = "Group"]
      [] kind = "field_options" ->
             [AstField(ItemName(q), AstInt(FALSE, U64(q), 10 * q + 6, 1))
                 EXCEPT !.options = <<"option">>]
      [] OTHER -> AstField(ItemName(q), AstInt(FALSE, U64(q), 10 * q + 6, 1))

\* the ast::Reserved of a written reserved statement
AstReservedOf(kind, q) ==
    IF kind = "names2"
    THEN AstReservedNames([j \in 1..StatementLen(kind) |->
                              ItemName(q) \o ItemName(j)])
    ELSE AstReservedRanges([j \in 1..StatementLen(kind) |->
                               AstRange(RangeNumber(q, j), "None", 0)])

\* as many placeholders as there are declarations of the kinds
Placeholders(items, kinds) ==
    [j \in 1..Len(Positions(items, kinds)) |-> items[Positions(items, kinds)[j]]]

\* the ast::Message of a written message with the given body
AstMessageOf(name, body) ==
    [AstMessage(
         name,
         [j \in 1..Len(Positions(body, FieldKinds)) |->
             AstFieldOf(body[Positions(body, FieldKinds)[j]],
                        Positions(body, FieldKinds)[j])],
         [j \in 1..Len(Positions(body, {"message"})) |->
             AstMessage(ItemName(Positions(body, {"message"})[j]),
                        <<>>, <<>>, <<>>)],
         [j \in 1..Len(Positions(body, {"reserved1", "reserved2", "names2"})) |->
             AstReservedOf(
                 body[Positions(body, {"reserved1", "reserved2", "names2"})[j]],
                 Positions(body, {"reserved1", "reserved2", "names2"})[j])])
     EXCEPT !.enums = Placeholders(body, {"enum"}),
            !.extensions = Placeholders(body, {"extensions1", "extensions2"}),
            !.extends = Placeholders(body, {"extend"}),
            !.oneofs = Placeholders(body, {"oneof"}),
            !.options = Placeholders(body, {"option"})]

\* the ast::File of a written file
AstOf(w) ==
    [AstFile("proto2",
             [j \in 1..Len(Positions(w.items, {"import", "public_import"})) |->
                 [value |-> ItemName(
                      Positions(w.items, {"import", "public_import"})[j]),
                  kind |-> WrittenImportKind(
                      w.items[Positions(w.items, {"import", "public_import"})[j]])]],
             [j \in 1..Len(Positions(w.items, {"message"})) |->
                 AstMessageOf(ItemName(Positions(w.items, {"message"})[j]),
                              w.body)])
     EXCEPT !.enums = Placeholders(w.items, {"enum"}),
            !.services = Placeholders(w.items, {"service"}),
            !.extends = Placeholders(w.items, {"extend"}),
            !.options = Placeholders(w.items, {"option"})]

\* syntax and package are written at most once
AtMostOnce(items, kind) == Len(Positions(items, {kind})) <= 1

\* the written files: any top-level declarations with empty messages, and
\* one message with any body
WrittenFiles ==
    {[items |-> t, body |-> <<>>] :
        t \in {s \in UNION {[1..n -> TopKinds] : n \in 0..MaxItems} :
                  AtMostOnce(s, "syntax") /\ AtMostOnce(s, "package")}}
    \cup {[items |-> <<"message">>, body |-> b] :
            b \in UNION {[1..n -> BodyKinds] : n \in 1..MaxBodyItems}}

InitInfo ==
    /\ source \in {[len |-> U64(100), written |-> w, ir |-> IrOf(w),
                    parsed |-> ParsedOk(AstOf(w))] : w \in WrittenFiles}
    /\ check_out = None
    /\ parse_out = None
    /\ info_out = None
    /\ fs = [n \in Names |-> [exists |-> FALSE, len |-> U64(0),
                              parsed |-> ParsedOk(DriverAst(<<>>, 1))]]
    /\ files = <<>>
    /\ file_names = <<>>
    /\ include_imports = FALSE
    /\ include_source_info = FALSE
    /\ ret = NoCall
    /\ added_by_add_file = {}
    /\ added_by_proto = {}

\* file.get_source_code_info(source)
GetSourceCodeInfo ==
    /\ info_out = None
    /\ info_out' = Some(get_source_code_info(source.ir))
    /\ UNCHANGED <<source, check_out, parse_out, driver_vars>>

NextInfo == GetSourceCodeInfo \/ ToFileDescriptor

SpecInfo == InitInfo /\ [][NextInfo]_vars

(***************************************************************************)
(* Properties of the source-code-info builder.                             *)
(***************************************************************************)
\* The descriptor schema: the child of a node of the given type under a
\* field tag, [type, repeated, name], name the field's name in the
\* descriptor; type "None" where the schema has no such field.  A "Leaf"
\* is a scalar.  The options messages have many fields, all with tags from
\* 1 on, as every message has.
NoChild == [type |-> "None", repeated |-> FALSE, name |-> ""]

Single(type, name) == [type |-> type, repeated |-> FALSE, name |-> name]

Repeated(type, name) == [type |-> type, repeated |-> TRUE, name |-> name]

SchemaChild(type, tag) ==
    CASE type = "File" ->
             CASE tag = 1 -> Single("Leaf", "name")
               [] tag = 2 -> Single("Leaf", "package")
               [] tag = 3 -> Repeated("Leaf", "dependency")
               [] tag = 4 -> Repeated("Message", "message_type")
               [] tag = 5 -> Repeated("Enum", "enum_type")
               [] tag = 6 -> Repeated("Service", "service")
               [] tag = 7 -> Repeated("Field", "extension")
               [] tag = 8 -> Single("Options", "options")
               [] tag = 9 -> Single("SourceCodeInfo", "source_code_info")
               [] tag = 10 -> Repeated("Leaf", "public_dependency")
               [] tag = 11 -> Repeated("Leaf", "weak_dependency")
               [] tag = 12 -> Single("Leaf", "syntax")
               [] OTHER -> NoChild
      [] type = "Message" ->
             CASE tag = 1 -> Single("Leaf", "name")
               [] tag = 2 -> Repeated("Field", "field")
               [] tag = 3 -> Repeated("Message", "nested_type")
               [] tag = 4 -> Repeated("Enum", "enum_type")
               [] tag = 5 -> Repeated("ExtensionRange", "extension_range")
               [] tag = 6 -> Repeated("Field", "extension")
               [] tag = 7 -> Single("Options", "options")
               [] tag = 8 -> Repeated("Oneof", "oneof_decl")
               [] tag = 9 -> Repeated("Range", "reserved_range")
               [] tag = 10 -> Repeated("Leaf", "reserved_name")
               [] OTHER -> NoChild
      [] type = "Field" ->
             CASE tag \in {1, 2, 3, 4, 5, 6, 7, 9, 10, 17} ->
                      Single("Leaf", "scalar")
               [] tag = 8 -> Single("Options", "options")
               [] OTHER -> NoChild
      [] type = "ExtensionRange" ->
             CASE tag \in {1, 2} -> Single("Leaf", "scalar")
               [] tag = 3 -> Single("Options", "options")
               [] OTHER -> NoChild
      [] type = "Range" ->
             CASE tag \in {1, 2} -> Single("Leaf", "scalar")
               [] OTHER -> NoChild
      [] type = "Oneof" ->
             CASE tag = 1 -> Single("Leaf", "name")
               [] tag = 2 -> Single("Options", "options")
               [] OTHER -> NoChild
      [] type = "Enum" ->
             CASE tag = 1 -> Single("Leaf", "name")
               [] tag = 2 -> Repeated("EnumValue", "value")
               [] tag = 3 -> Single("Options", "options")
               [] tag = 4 -> Repeated("Range", "reserved_range")
               [] tag = 5 -> Repeated("Leaf", "reserved_name")
               [] OTHER -> NoChild
      [] type = "EnumValue" ->
             CASE tag \in {1, 2} -> Single("Leaf", "scalar")
               [] tag = 3 -> Single("Options", "options")
               [] OTHER -> NoChild
      [] type = "Service" ->
             CASE tag = 1 -> Single("Leaf", "name")
               [] tag = 2 -> Repeated("Method", "method")
               [] tag = 3 -> Single("Options", "options")
               [] OTHER -> NoChild
      [] type = "Method" ->
             CASE tag \in {1, 2, 3, 5, 6} -> Single("Leaf", "scalar")
               [] tag = 4 -> Single("Options", "options")
               [] OTHER -> NoChild
      [] type = "Options" ->
             IF tag >= 1 THEN Single("Option", "option") ELSE NoChild
      [] OTHER -> NoChild

\* the type of the node a path leads to from a node of the given type:
\* tags and, under a repeated field, indices in turn; "None" when the path
\* names no position of the schema.  What lies under one option of an
\* options message is not followed.
RECURSIVE TypeAt(_, _)
TypeAt(path, type) ==
    IF path = <<>> \/ type = "Option"
    THEN type
    ELSE IF SchemaChild(type, path[1]).type = "None"
    THEN "None"
    ELSE IF ~SchemaChild(type, path[1]).repeated
    THEN TypeAt(Tail(path), SchemaChild(type, path[1]).type)
    ELSE IF Len(path) = 1
    THEN "List"
    ELSE IF path[2] < 0
    THEN "None"
    ELSE TypeAt(Tail(Tail(path)), SchemaChild(type, path[1]).type)

\* the path names a position of the schema of a file descriptor
InSchema(path) == TypeAt(path, "File") # "None"

\* the repeated fields of the descriptors the generator emits
EmittedLists ==
    {"dependency", "message_type", "public_dependency", "weak_dependency",
     "field", "nested_type", "reserved_range", "reserved_name"}

\* the indices of the path are within the repeated fields of the emitted
\* descriptor `node` of the given type
RECURSIVE InDescriptor(_, _, _)
InDescriptor(path, node, type) ==
    IF Len(path) < 2 \/ ~SchemaChild(type, path[1]).repeated
    THEN TRUE
    ELSE IF SchemaChild(type, path[1]).name \notin EmittedLists
    THEN FALSE
    ELSE /\ path[2] < Len(node[SchemaChild(type, path[1]).name])
         /\ InDescriptor(Tail(Tail(path)),
                         node[SchemaChild(type, path[1]).name][path[2] + 1],
                         SchemaChild(type, path[1]).type)

\* C15: every Location has a path that names a real position in the
\* descriptor tree of the file: its tags are fields of the schema of the
\* node reached so far, and its indices are within the repeated fields of
\* the emitted descriptor
C15_LocationPathsAreReal ==
    info_out # None =>
        \A i \in 1..Len(info_out[1].location) :
            /\ InSchema(info_out[1].location[i].path)
            /\ (check_out # None /\ check_out[1].ok) =>
                   InDescriptor(info_out[1].location[i].path,
                                check_out[1].val, "File")

\* the path is that of an option: a position of type options, then the
\* tag the builder gives every option
IsOptionPath(path) ==
    /\ path # <<>>
    /\ path[Len(path)] = OPTION_NUMBER
    /\ TypeAt(SubSeq(path, 1, Len(path) - 1), "File") = "Options"

\* the part of C15 that holds: the paths that are not those of options
LocationPathsAreRealButOptions ==
    info_out # None =>
        \A i \in 1..Len(info_out[1].location) :
            ~IsOptionPath(info_out[1].location[i].path) =>
                /\ InSchema(info_out[1].location[i].path)
                /\ (check_out # None /\ check_out[1].ok) =>
                       InDescriptor(info_out[1].location[i].path,
                                    check_out[1].val, "File")

\* the generator emits a descriptor of a file with locations below the
\* file's own
LoweredWithLocations ==
    /\ info_out # None /\ check_out # None /\ check_out[1].ok
    /\ \E i \in 1..Len(info_out[1].location) :
           Len(info_out[1].location[i].path) >= 4

\* the ranges (or names, or fields) of the statements of the given kinds
\* of a body, in written order across the statements: pairs <<q, j>>, the
\* j-th of the statement written at position q
RECURSIVE Flattened(_, _, _)
Flattened(body, kinds, q) ==
    IF q > Len(body)
    THEN <<>>
    ELSE (IF body[q] \in kinds
          THEN [j \in 1..(IF body[q] = "extend" THEN 2 ELSE StatementLen(body[q])) |->
                   <<q, j>>]
          ELSE <<>>)
             \o Flattened(body, kinds, q + 1)

\* the builder has a Location with the path and the span
HasLocation(path, span) ==
    \E i \in 1..Len(info_out[1].location) :
        /\ info_out[1].location[i].path = path
        /\ info_out[1].location[i].span = resolve_span(span)

\* the body of the one message of the written file, where it starts, and
\* the path of the message
TheBody == source.written.body

TheBase == TopBase(1)

ThePath == <<File_MESSAGE_TYPE, 0>>

\* the k-th reserved range overall has the index k in its path, and is the
\* k-th of the descriptor's reserved_range
ReservedRangeIndices(m) ==
    /\ Len(m.reserved_range)
           = Len(Flattened(TheBody, {"reserved1", "reserved2"}, 1))
    /\ \A k \in 1..Len(Flattened(TheBody, {"reserved1", "reserved2"}, 1)) :
           /\ HasLocation(
                  ThePath \o <<Message_RESERVED_RANGE, k - 1>>,
                  IrRange(BodyBase(TheBase,
                      Flattened(TheBody, {"reserved1", "reserved2"}, 1)[k][1]),
                      Flattened(TheBody, {"reserved1", "reserved2"}, 1)[k][2]).span)
           /\ m.reserved_range[k].start
                  = Some(RangeNumber(
                      Flattened(TheBody, {"reserved1", "reserved2"}, 1)[k][1],
                      Flattened(TheBody, {"reserved1", "reserved2"}, 1)[k][2]))

\* the same for the reserved names
ReservedNameIndices(m) ==
    /\ Len(m.reserved_name) = Len(Flattened(TheBody, {"names2"}, 1))
    /\ \A k \in 1..Len(Flattened(TheBody, {"names2"}, 1)) :
           /\ HasLocation(
                  ThePath \o <<Message_RESERVED_NAME, k - 1>>,
                  IrRange(BodyBase(TheBase,
                      Flattened(TheBody, {"names2"}, 1)[k][1]),
                      Flattened(TheBody, {"names2"}, 1)[k][2]).span)
           /\ m.reserved_name[k]
                  = ItemName(Flattened(TheBody, {"names2"}, 1)[k][1])
                        \o ItemName(Flattened(TheBody, {"names2"}, 1)[k][2])

\* the same for the extension ranges
ExtensionRangeIndices(m) ==
    /\ Len(m.extension_range)
           = Len(Flattened(TheBody, {"extensions1", "extensions2"}, 1))
    /\ \A k \in 1..Len(Flattened(TheBody, {"extensions1", "extensions2"}, 1)) :
           HasLocation(
               ThePath \o <<Message_EXTENSION_RANGE, k - 1>>,
               IrRange(BodyBase(TheBase,
                   Flattened(TheBody, {"extensions1", "extensions2"}, 1)[k][1]),
                   Flattened(TheBody, {"extensions1", "extensions2"}, 1)[k][2]).span)

\* the same for the fields of the extend blocks
ExtendFieldIndices(m) ==
    /\ Len(m.extension) = Len(Flattened(TheBody, {"extend"}, 1))
    /\ \A k \in 1..Len(Flattened(TheBody, {"extend"}, 1)) :
           HasLocation(
               ThePath \o <<Message_EXTENSION, k - 1>>,
               ItemSpan(BodyBase(TheBase,
                            Flattened(TheBody, {"extend"}, 1)[k][1])
                        + 2 * Flattened(TheBody, {"extend"}, 1)[k][2], 8))

\* the written file is one message whose body is fields, nested messages
\* and statements of the given kinds
BodyOf(kinds) ==
    /\ source.written.items = <<"message">>
    /\ \A q \in 1..Len(TheBody) :
           TheBody[q] \in {"field", "map", "message"} \cup kinds

\* both the builder and the generator have run
BothRan == info_out # None /\ check_out # None

\* C16: across several reserved or extensions statements with several
\* ranges each, the index in the path of the k-th range overall is k and
\* is its index in the descriptor's flattened list; the same for reserved
\* names and for the fields of several extend blocks
C16_RunningIndicesMatchDescriptor ==
    (BothRan /\ BodyOf({"reserved1", "reserved2", "names2", "extensions1",
                        "extensions2", "extend"})) =>
        /\ check_out[1].ok
        /\ ReservedRangeIndices(check_out[1].val.message_type[1])
        /\ ReservedNameIndices(check_out[1].val.message_type[1])
        /\ ExtensionRangeIndices(check_out[1].val.message_type[1])
        /\ ExtendFieldIndices(check_out[1].val.message_type[1])

\* the part of C16 that holds: the reserved ranges and names
ReservedIndicesMatchDescriptor ==
    (BothRan /\ BodyOf({"reserved1", "reserved2", "names2"})) =>
        /\ check_out[1].ok
        /\ ReservedRangeIndices(check_out[1].val.message_type[1])
        /\ ReservedNameIndices(check_out[1].val.message_type[1])

\* two reserved statements with three ranges between them, and names
SeveralReservedStatements ==
    /\ BothRan
    /\ BodyOf({"reserved1", "reserved2", "names2"})
    /\ Len(Flattened(TheBody, {"reserved1", "reserved2"}, 1)) = 3
    /\ Len(Flattened(TheBody, {"names2"}, 1)) = 2

\* the place in the Location list of the first Location with the span
FirstLocation(span) ==
    CHOOSE i \in 1..Len(info_out[1].location) :
        /\ info_out[1].location[i].span = resolve_span(span)
        /\ \A j \in 1..(i - 1) :
               info_out[1].location[j].span # resolve_span(span)

\* the place of the Location of the p-th top-level declaration
TopLocation(p) == FirstLocation(ItemSpan(TopBase(p), 90))

\* the place of the Location of the q-th declaration of the message
BodyLocation(q) == FirstLocation(ItemSpan(BodyBase(TheBase, q), 8))

\* the place of a kind of top-level declaration in the builder's walk of a
\* file
TopRank(kind) ==
    CASE kind = "package" -> 1
      [] kind \in {"import", "public_import"} -> 2
      [] kind = "message" -> 3
      [] kind = "enum" -> 4
      [] kind = "service" -> 5
      [] kind = "extend" -> 6
      [] kind = "option" -> 7
      [] kind = "syntax" -> 8

\* the place of a kind of declaration in the builder's walk of a message
BodyRank(kind) ==
    CASE kind \in FieldKinds -> 1
      [] kind = "extend" -> 2
      [] kind = "oneof" -> 3
      [] kind = "message" -> 4
      [] kind = "enum" -> 5
      [] kind = "option" -> 6
      [] kind \in {"extensions1", "extensions2"} -> 7
      [] kind \in {"reserved1", "reserved2"} -> 8
      [] kind = "names2" -> 9

\* C17 as stated: a declaration written before another has its Location
\* before the other's, whatever their kinds
C17_Original ==
    info_out # None =>
        \A pa, pb \in 1..Len(source.written.items) :
            pa < pb => TopLocation(pa) < TopLocation(pb)

\* C17: the Locations of two declarations of the same kind in the same
\* scope are in the order the declarations are written in; those of two
\* declarations of different kinds are in the order of the builder's walk
\* (in a file: package, imports, messages, enums, services, extend blocks,
\* options, syntax), whatever the order they are written in
C17_SourceOrderWithinKind ==
    info_out # None =>
        /\ \A pa, pb \in 1..Len(source.written.items) :
               pa < pb =>
                   IF TopRank(source.written.items[pa])
                          = TopRank(source.written.items[pb])
                   THEN TopLocation(pa) < TopLocation(pb)
                   ELSE (TopLocation(pa) < TopLocation(pb))
                            <=> (TopRank(source.written.items[pa])
                                     < TopRank(source.written.items[pb]))
        /\ source.written.items = <<"message">> =>
               \A qa, qb \in 1..Len(TheBody) :
                   qa < qb =>
                       IF BodyRank(TheBody[qa]) = BodyRank(TheBody[qb])
                       THEN BodyLocation(qa) < BodyLocation(qb)
                       ELSE (BodyLocation(qa) < BodyLocation(qb))
                                <=> (BodyRank(TheBody[qa])
                                         < BodyRank(TheBody[qb]))

\* the builder has walked a file that declares an enum, then two messages
C17_Witness ==
    /\ info_out # None
    /\ source.written.items = <<"enum", "message", "message">>
    /\ TopLocation(2) < TopLocation(3)
    /\ TopLocation(3) < TopLocation(1)


(***************************************************************************)
(* The driver with its source-info flag: include_source_info may be set    *)
(* or cleared between any two calls.                                       *)
(***************************************************************************)
\* the most import statements of a resolver of this family
MaxFlagEdges == 1

\* the resolvers whose files all open, parse and check
FlagResolvers ==
    {f \in Resolvers :
        /\ \A n \in Names : f[n] \in PlainFiles
        /\ Edges(f, Names) <= MaxFlagEdges}

InitFlags ==
    /\ Init
    /\ fs \in FlagResolvers

NextFlags ==
    \/ IncludeSourceInfo
    \/ IncludeImports
    \/ AddFile
    \/ AddFileDescriptorProto

SpecFlags == InitFlags /\ [][NextFlags]_vars

\* the descriptors file_descriptor_set returns
ReturnedFiles ==
    {file_descriptor_set.file[i] : i \in 1..Len(file_descriptor_set.file)}

\* C18: whenever file_descriptor_set is called, every file descriptor it
\* returns has source_code_info populated if include_source_info is set at
\* that moment, and none has if it is not set, whatever the order of the
\* calls to include_source_info and add_file before
C18_SourceInfoFollowsFlag ==
    \A d \in ReturnedFiles :
        (d.source_code_info # None) <=> include_source_info

\* the entry of the file map for `name`, if there is one
FileOf(fileseq, name) ==
    LET found == {i \in 1..Len(fileseq) : fileseq[i].descriptor.name = Some(name)}
    IN  IF found = {} THEN None ELSE Some(fileseq[CHOOSE i \in found : TRUE])

\* what the code does instead: a file compiled from source gets its source
\* info by the flag as it is when the file is added, a descriptor given to
\* add_file_descriptor_proto keeps what it came with, and neither changes
\* afterwards
SourceInfoAsWhenAdded ==
    [][\A i \in 1..Len(files') :
          LET d == files'[i].descriptor
              before == FileOf(files, d.name[1])
          IN  IF before # None
              THEN d = before[1].descriptor
              ELSE IF d.name[1] \in added_by_proto'
              THEN d.source_code_info = None
              ELSE (d.source_code_info # None) <=> include_source_info]_vars

\* two compiled files are returned, one with source info and one without
MixedSourceInfo ==
    \E d, e \in ReturnedFiles :
        /\ d.source_code_info # None
        /\ e.source_code_info = None
        /\ {d.name[1], e.name[1]} \cap added_by_proto = {}


(***************************************************************************)
(* The name map (check::names, spec 3 "Name map" and 4.3).  A name is the  *)
(* sequence of its characters, so that the generated names (CamelCase +    *)
(* "Entry", "_" + name, the lowercased group field) are computed.  A       *)
(* NameMap is the sequence of its entries [name, kind, span, file] in the  *)
(* order they were inserted; `file` is None for the file's own definitions  *)
(* and `span` is None for the generated ones.  The pass carries            *)
(* [map, errors].                                                          *)
(***************************************************************************)
\* char::to_ascii_uppercase, over the letters the inputs use
Upper(c) ==
    CASE c = "b" -> "B"
      [] c = "v" -> "V"
      [] c = "q" -> "Q"
      [] c = "a" -> "A"
      [] c = "l" -> "L"
      [] c = "z" -> "Z"
      [] OTHER -> c

\* char::to_ascii_lowercase, over the letters the inputs use
Lower(c) ==
    CASE c = "B" -> "b"
      [] c = "V" -> "v"
      [] c = "Q" -> "q"
      [] c = "E" -> "e"
      [] c = "F" -> "f"
      [] OTHER -> c

\* the CamelCase form of a field name: the first letter and every letter
\* after an underscore upper-cased, the underscores dropped
RECURSIVE to_camel_case_from(_, _, _)
to_camel_case_from(name, i, capitalize) ==
    IF i > Len(name)
    THEN <<>>
    ELSE IF name[i] = "_"
    THEN to_camel_case_from(name, i + 1, TRUE)
    ELSE <<IF capitalize THEN Upper(name[i]) ELSE name[i]>>
         \o to_camel_case_from(name, i + 1, FALSE)

to_camel_case(name) == to_camel_case_from(name, 1, TRUE)

to_lowercase(name) == [i \in 1..Len(name) |-> Lower(name[i])]

\* the name of the entry message of a map field
map_entry_name(name) == to_camel_case(name) \o <<"E", "n", "t", "r", "y">>

\* the name of the synthetic oneof of a proto3 optional field
synthetic_oneof_name(name) == <<"_">> \o name

\* the fully qualified name of `name` declared in `scope`
make_name(scope, name) ==
    IF scope = <<>> THEN name ELSE scope \o <<".">> \o name

\* NameLocation::new: Import(file) for a definition that came with an
\* import, Root(span) for one of this file, Unknown for a generated one
NameLocation_new(file, span) ==
    IF file # None
    THEN [tag |-> "Import", file |-> file, span |-> None]
    ELSE IF span # None
    THEN [tag |-> "Root", file |-> None, span |-> span]
    ELSE [tag |-> "Unknown", file |-> None, span |-> None]

NameLocation_Import(file) == NameLocation_new(Some(file), None)

NameLocation_Root(span) == NameLocation_new(None, Some(span))

NameLocation_Unknown == NameLocation_new(None, None)

\* CheckError::DuplicateName(DuplicateNameError { name, first, second })
DuplicateName(name, first, second) ==
    [kind |-> "DuplicateName", name |-> name, first |-> first,
     second |-> second]

EmptyNames == [map |-> <<>>, errors |-> <<>>]

\* the entries of the map with this name
NameMap_get(map, name) == SelectSeq(map, LAMBDA e : e.name = name)

\* NameMap::add: a vacant name is inserted; an occupied one keeps its first
\* entry and is reported with both locations
NameMap_add(names, name, kind, span, file) ==
    LET found == NameMap_get(names.map, name)
    IN  IF found = <<>>
        THEN [names EXCEPT !.map =
                 Append(@, [name |-> name, kind |-> kind, span |-> span,
                            file |-> file])]
        ELSE [names EXCEPT !.errors =
                 Append(@, DuplicateName(name,
                               NameLocation_new(found[1].file, found[1].span),
                               NameLocation_new(file, span)))]


\* the pass over one field: a field registers its name; a map field also
\* its entry message and a proto3 optional field also its synthetic oneof,
\* both without a span; a group registers the lowercased field and the
\* group's message under the span of the group's name
add_field(names, scope, syntax, field) ==
    IF field.kind = "Map"
    THEN NameMap_add(NameMap_add(names, make_name(scope, field.name),
                                 "field", Some(field.span), None),
                     make_name(scope, map_entry_name(field.name)),
                     "message", None, None)
    ELSE IF field.kind = "Group"
    THEN NameMap_add(NameMap_add(names,
                                 make_name(scope, to_lowercase(field.name)),
                                 "field", Some(field.span), None),
                     make_name(scope, field.name),
                     "group", Some(field.span), None)
    ELSE IF syntax = "proto3" /\ field.label = Some("Optional")
    THEN NameMap_add(NameMap_add(names, make_name(scope, field.name),
                                 "field", Some(field.span), None),
                     make_name(scope, synthetic_oneof_name(field.name)),
                     "oneof", None, None)
    ELSE NameMap_add(names, make_name(scope, field.name),
                     "field", Some(field.span), None)

RECURSIVE add_fields(_, _, _, _, _)
add_fields(names, scope, syntax, fields, i) ==
    IF i > Len(fields)
    THEN names
    ELSE add_fields(add_field(names, scope, syntax, fields[i]),
                    scope, syntax, fields, i + 1)

\* the values of an enum are named in the scope the enum is declared in
RECURSIVE add_enum_values(_, _, _, _)
add_enum_values(names, scope, values, i) ==
    IF i > Len(values)
    THEN names
    ELSE add_enum_values(NameMap_add(names, make_name(scope, values[i].name),
                                     "enum_value", Some(values[i].span), None),
                         scope, values, i + 1)

add_enum(names, scope, enum) ==
    add_enum_values(NameMap_add(names, make_name(scope, enum.name),
                                "enum", Some(enum.span), None),
                    scope, enum.values, 1)

RECURSIVE add_enums(_, _, _, _)
add_enums(names, scope, enums, i) ==
    IF i > Len(enums)
    THEN names
    ELSE add_enums(add_enum(names, scope, enums[i]), scope, enums, i + 1)

RECURSIVE add_message(_, _, _, _)

RECURSIVE add_messages(_, _, _, _, _)
add_messages(names, scope, syntax, messages, i) ==
    IF i > Len(messages)
    THEN names
    ELSE add_messages(add_message(names, scope, syntax, messages[i]),
                      scope, syntax, messages, i + 1)

\* a pass that walks the nested declarations before the fields
add_message_body_fields_last(names, scope, syntax, message) ==
    add_fields(add_enums(add_messages(names, scope, syntax,
                                      message.messages, 1),
                         scope, message.enums, 1),
               scope, syntax, message.fields, 1)

\* the body of a message is walked as the ast holds it: the fields, then
\* the nested messages, then the enums
add_message_body(names, scope, syntax, message) ==
    add_enums(add_messages(add_fields(names, scope, syntax,
                                      message.fields, 1),
                           scope, syntax, message.messages, 1),
              scope, message.enums, 1)

add_message(names, scope, syntax, message) ==
    add_message_body(NameMap_add(names, make_name(scope, message.name),
                                 "message", Some(message.span), None),
                     make_name(scope, message.name), syntax, message)

\* the definitions of an imported file come under that file's name
RECURSIVE merge_as_own(_, _, _, _)
merge_as_own(names, other, file, i) ==
    IF i > Len(other)
    THEN names
    ELSE merge_as_own(NameMap_add(names, other[i].name, other[i].kind,
                                  other[i].span, None),
                      other, file, i + 1)

\* NameMap::merge: the entries of the map of an imported file are added
\* with that file as their definer
RECURSIVE merge(_, _, _, _)
merge(names, other, file, i) ==
    IF i > Len(other)
    THEN names
    ELSE merge(NameMap_add(names, other[i].name, other[i].kind,
                           other[i].span, Some(file)),
               other, file, i + 1)

\* the maps of the imports are merged in the order of the import statements
RECURSIVE merge_imports(_, _, _, _)
merge_imports(names, imports, file_map, i) ==
    IF i > Len(imports)
    THEN names
    ELSE merge_imports(merge(names, file_map[imports[i].value],
                             imports[i].value, 1),
                       imports, file_map, i + 1)

\* NameMap::from_ast: the imports first, then the file's own declarations
NameMap_from_ast(file, file_map) ==
    add_enums(add_messages(merge_imports(EmptyNames, file.imports,
                                         file_map, 1),
                           <<>>, file.syntax, file.messages, 1),
              <<>>, file.enums, 1)

\* the name pass of check_with_names: the map, or the errors
check_names(file, file_map) ==
    LET names == NameMap_from_ast(file, file_map)
    IN  [ok |-> names.errors = <<>>, map |-> names.map,
         errors |-> names.errors]


(***************************************************************************)
(* The files the name pass is run on: a root that imports dep1.proto and   *)
(* dep2.proto in either order, which define Foo or Bar, and a root with a  *)
(* message Outer whose body has generating fields and user symbols in any  *)
(* order.                                                                  *)
(***************************************************************************)
\* the most declarations in the body of Outer
MaxNameItems == 2

Name_Foo == <<"F", "o", "o">>

Name_Bar == <<"B", "a", "r">>

Name_Outer == <<"O", "u", "t", "e", "r">>

Name_baz == <<"b", "a", "z">>

Name_val == <<"v", "a", "l">>

Name_Baz == <<"B", "a", "z">>

Name_BazEntry == <<"B", "a", "z", "E", "n", "t", "r", "y">>

Name__val == <<"_", "v", "a", "l">>

Name_ZERO == <<"Z", "E", "R", "O">>

\* the characters of `import "dep1.proto"; `
ImportStatementLen == 21

\* the characters a declaration in a body takes
BodyItemLen == 40

\* the characters of `message Outer { `
OuterHeadLen == 16

\* the characters from the start of a declaration to its name
NameOffset(kind) ==
    CASE kind = "Map" -> 19
      [] kind = "Field" -> 17
      [] kind = "Group" -> 15
      [] kind = "Enum" -> 5
      [] kind = "Message" -> 8

NameSpan(start, name) == <<start, start + Len(name)>>

\* `message <name> {}` written at `start`
NameAstMessage(name, start, fields, messages, enums) ==
    [name |-> name, span |-> NameSpan(start + NameOffset("Message"), name),
     fields |-> fields, messages |-> messages, enums |-> enums]

\* `enum <name> { ZERO = 0; }` written at `start`
NameAstEnum(name, start) ==
    [name |-> name, span |-> NameSpan(start + NameOffset("Enum"), name),
     values |-> <<[name |-> Name_ZERO,
                   span |-> NameSpan(start + NameOffset("Enum")
                                     + Len(name) + 3, Name_ZERO)]>>]

\* `map<uint32, bytes> <name> = 1;`, `optional fixed64 <name> = 1;` or
\* `optional group <name> = 1 {}` written at `start`
NameAstField(kind, name, start) ==
    [kind |-> kind, name |-> name,
     span |-> NameSpan(start + NameOffset(kind), name),
     label |-> IF kind = "Map" THEN None ELSE Some("Optional")]

\* the declarations a body is written with
GeneratingItems ==
    {[kind |-> "Map", name |-> Name_baz],
     [kind |-> "Field", name |-> Name_val],
     [kind |-> "Group", name |-> Name_Baz]}

UserItems ==
    {[kind |-> k, name |-> n] :
        k \in {"Enum", "Message"}, n \in {Name_BazEntry, Name__val, Name_Baz}}

WrittenBodies ==
    {s \in UNION {[1..n -> GeneratingItems \cup UserItems] :
                      n \in 0..MaxNameItems} :
        \A i, j \in 1..Len(s) : i # j => s[i] # s[j]}

\* where the q-th declaration of the body of a message written at `start`
\* begins
BodyItemStart(start, q) == start + OuterHeadLen + BodyItemLen * (q - 1)

\* the parser keeps the declarations of a body by kind, each kind in the
\* order written
BodyIndices(body, kinds) ==
    SelectSeq([q \in 1..Len(body) |-> q], LAMBDA q : body[q].kind \in kinds)

NameAstOuter(start, body) ==
    LET fields == BodyIndices(body, {"Map", "Field", "Group"})
        messages == BodyIndices(body, {"Message"})
        enums == BodyIndices(body, {"Enum"})
    IN  NameAstMessage(Name_Outer, start,
            [i \in 1..Len(fields) |->
                NameAstField(body[fields[i]].kind, body[fields[i]].name,
                             BodyItemStart(start, fields[i]))],
            [i \in 1..Len(messages) |->
                NameAstMessage(body[messages[i]].name,
                               BodyItemStart(start, messages[i]),
                               <<>>, <<>>, <<>>)],
            [i \in 1..Len(enums) |->
                NameAstEnum(body[enums[i]].name,
                            BodyItemStart(start, enums[i]))])

NameAstFile(syntax, imports, messages) ==
    [syntax |-> syntax,
     imports |-> [i \in 1..Len(imports) |->
                     [value |-> imports[i], kind |-> None]],
     messages |-> messages, enums |-> <<>>]

DepNames == {"dep1.proto", "dep2.proto"}

\* what an imported file defines
DepDefinitions == {<<Name_Foo>>, <<Name_Bar>>, <<Name_Foo, Name_Bar>>}

\* `message Foo {} message Bar {}`
DepFile(defs) ==
    NameAstFile("proto2", <<>>,
        [i \in 1..Len(defs) |->
            NameAstMessage(defs[i], 15 * (i - 1), <<>>, <<>>, <<>>)])

DepImportLists ==
    {s \in UNION {[1..n -> DepNames] : n \in 0..2} :
        \A i, j \in 1..Len(s) : i # j => s[i] # s[j]}

\* the roots that import: `import "dep1.proto"; import "dep2.proto";
\* message Foo {}`
ImportingRoots ==
    {[deps |-> d, body |-> <<>>,
      file |-> NameAstFile("proto2", imports,
                  IF own
                  THEN <<NameAstMessage(Name_Foo,
                             ImportStatementLen * Len(imports),
                             <<>>, <<>>, <<>>)>>
                  ELSE <<>>)] :
        d \in [DepNames -> DepDefinitions], imports \in DepImportLists,
        own \in BOOLEAN}

\* the roots `message Outer { ... }`
OuterRoots ==
    {[deps |-> [n \in DepNames |-> <<Name_Bar>>], body |-> body,
      file |-> NameAstFile(syntax, <<>>, <<NameAstOuter(0, body)>>)] :
        syntax \in {"proto2", "proto3"}, body \in WrittenBodies}

\* the name maps of the imported files, as the file map holds them once
\* they were added
DepFileMap(deps) ==
    [n \in DepNames |-> check_names(DepFile(deps[n]), <<>>).map]

InitNames ==
    /\ source \in {[len |-> U64(100), deps |-> r.deps, body |-> r.body,
                    file |-> r.file, file_map |-> DepFileMap(r.deps)] :
                       r \in ImportingRoots \cup OuterRoots}
    /\ check_out = None
    /\ parse_out = None
    /\ info_out = None
    /\ fs = [n \in Names |-> [exists |-> FALSE, len |-> U64(0),
                              parsed |-> ParsedOk(DriverAst(<<>>, 1))]]
    /\ files = <<>>
    /\ file_names = <<>>
    /\ include_imports = FALSE
    /\ include_source_info = FALSE
    /\ ret = NoCall
    /\ added_by_add_file = {}
    /\ added_by_proto = {}

\* NameMap::from_ast(ast, file_map) of the root
CheckNames ==
    /\ check_out = None
    /\ check_out' = Some(check_names(source.file, source.file_map))
    /\ UNCHANGED <<source, parse_out, info_out, driver_vars>>

NextNames == CheckNames

SpecNames == InitNames /\ [][NextNames]_vars


(***************************************************************************)
(* Properties of the name map.                                             *)
(***************************************************************************)
\* the result of the name pass, once it ran
NamesRan == check_out # None

\* the import statements of the root whose file defines `name`
ImportDefiners(name) ==
    {i \in 1..Len(source.file.imports) :
        \E k \in 1..Len(source.deps[source.file.imports[i].value]) :
            source.deps[source.file.imports[i].value][k] = name}

\* the top-level messages of the root named `name`
RootDefiners(name) ==
    {i \in 1..Len(source.file.messages) : source.file.messages[i].name = name}

\* the errors reported for `name`
ErrorsFor(name) == SelectSeq(check_out[1].errors, LAMBDA e : e.name = name)

ImportAndRootConflict ==
    /\ NamesRan
    /\ Len(source.file.imports) = 1
    /\ check_out[1].errors =
           <<DuplicateName(Name_Foo, NameLocation_Import("dep1.proto"),
                           NameLocation_Root(<<29, 32>>))>>


\* the positions of the body of Outer where a declaration of one of the
\* kinds with this name is written
WrittenAt(kinds, name) ==
    {q \in 1..Len(source.body) :
        source.body[q].kind \in kinds /\ source.body[q].name = name}

\* the span of the name of the declaration written at position q
WrittenSpan(q) ==
    NameSpan(BodyItemStart(0, q) + NameOffset(source.body[q].kind),
             source.body[q].name)

\* the field at position q generates `synthetic`, and the one user symbol
\* of that name is at position p
SyntheticConflict(q, fieldKind, fieldName, p, synthetic) ==
    /\ WrittenAt({fieldKind}, fieldName) = {q}
    /\ WrittenAt({"Enum", "Message"}, synthetic) = {p}

Proto2NoSyntheticOneof ==
    NamesRan /\ source.file.syntax = "proto2"
             /\ Cardinality(WrittenAt({"Enum", "Message"}, Name__val)) <= 1 =>
        ErrorsFor(make_name(Name_Outer, Name__val)) = <<>>

\* the enum Baz is written before the group Baz: both locations are Root
\* spans, the group's first
GroupConflictAfterEnum ==
    /\ NamesRan
    /\ source.body = <<[kind |-> "Enum", name |-> Name_Baz],
                       [kind |-> "Group", name |-> Name_Baz]>>
    /\ check_out[1].errors =
           <<DuplicateName(make_name(Name_Outer, Name_Baz),
                           NameLocation_Root(WrittenSpan(2)),
                           NameLocation_Root(WrittenSpan(1)))>>


(***************************************************************************)
(* The checker's rules on fields and methods.                              *)
(***************************************************************************)
\* the j-th field of `Bar` is a regular field written without a label
MissingLabel(j) ==
    /\ LoweredAst.fields[j].kind = "Field"
    /\ LoweredAst.fields[j].label = None

\* the result carries an error of this kind
HasError(kind) ==
    \E i \in 1..Len(check_out[1].errors) : check_out[1].errors[i].kind = kind

\* C22: in a proto2 file a regular field written without a label makes the
\* check fail with Proto2FieldMissingLabel, and no descriptor is emitted
C22_Proto2FieldMissingLabel ==
    check_out # None /\ source.parsed.ast.syntax = "proto2" =>
        \A j \in 1..Len(LoweredAst.fields) :
            MissingLabel(j) =>
                /\ ~check_out[1].ok
                /\ ~check_out[1].panicked
                /\ HasError("Proto2FieldMissingLabel")

\* what the lowering does with a field without a label, in either syntax:
\* the descriptor is emitted and the field is optional
MissingLabelIsOptional ==
    Lowered =>
        \A j \in 1..Len(LoweredAst.fields) :
            MissingLabel(j) =>
                LoweredMessage.field[j].label = Some("LABEL_OPTIONAL")

\* a proto2 file with a field without a label was lowered to a descriptor
MissingLabelLowered ==
    /\ Lowered
    /\ source.parsed.ast.syntax = "proto2"
    /\ \E j \in 1..Len(LoweredAst.fields) : MissingLabel(j)


\* the most methods of a service
MaxMethods == 2

\* the type names a method is written with
MethodTypeNames == {".Enum", ".Message", ".Service"}

\* the characters a method declaration takes
MethodLen == 50

\* `rpc rpc<j>(<input>) returns (<output>);`, the j-th method of a service
AstMethod(j, input, output) ==
    [name |-> "rpc",
     input_ty |-> [name |-> input,
                   span |-> <<MethodLen * j + 8, MethodLen * j + 16>>],
     output_ty |-> [name |-> output,
                    span |-> <<MethodLen * j + 27, MethodLen * j + 35>>],
     options |-> <<>>]

MethodLists ==
    UNION {{[j \in 1..n |-> AstMethod(j, w[j][1], w[j][2])] :
               w \in [1..n -> MethodTypeNames \X MethodTypeNames]} :
           n \in 1..MaxMethods}

\* `syntax = 'proto3'; enum Enum { ZERO = 0; } message Message {}
\* service Service { <methods> }`
ServiceFiles ==
    {[AstFile("proto3", <<>>, <<AstMessage("Message", <<>>, <<>>, <<>>)>>)
         EXCEPT !.enums = <<[name |-> "Enum", values |-> <<"ZERO">>]>>,
                !.services = <<[name |-> "Service", methods |-> m,
                                options |-> <<>>]>>] :
        m \in MethodLists}

\* the same file without the enum, its methods over messages and the service
ServiceOnlyFiles ==
    {[AstFile("proto3", <<>>, <<AstMessage("Message", <<>>, <<>>, <<>>)>>)
         EXCEPT !.services = <<[name |-> "Service",
                                methods |-> <<AstMethod(1, i, o)>>,
                                options |-> <<>>]>>] :
        i, o \in {".Message", ".Service"}}

\* the literals a default option is written with
DefaultLiterals == {"Int", "String", "Ident"}

\* `[default = <literal>]` on the field written at `start`
AstDefault(literal, start) ==
    [name |-> "default", value |-> [kind |-> literal],
     span |-> <<start + 24, start + 39>>]

\* `message Message { optional <ty> foo = 1 [default = <literal>]; }`, or
\* the field without options
DefaultFiles ==
    {AstFile(s, <<>>,
        <<AstMessage("Message",
              <<[AstField("foo", AstInt(FALSE, U64(1), 21, 1))
                    EXCEPT !.ty = ty, !.options = o]>>,
              <<>>, <<>>)>>) :
        s \in Syntaxes, ty \in {"Int32", "String", "Bool"},
        o \in {<<>>} \cup {<<AstDefault(l, 0)>> : l \in DefaultLiterals}}

RuleFiles == ServiceFiles \cup ServiceOnlyFiles \cup DefaultFiles

InitRules ==
    /\ source \in {[len |-> U64(100), parsed |-> ParsedOk(f)] : f \in RuleFiles}
    /\ check_out = None
    /\ parse_out = None
    /\ info_out = None
    /\ fs = [n \in Names |-> [exists |-> FALSE, len |-> U64(0),
                              parsed |-> ParsedOk(DriverAst(<<>>, 1))]]
    /\ files = <<>>
    /\ file_names = <<>>
    /\ include_imports = FALSE
    /\ include_source_info = FALSE
    /\ ret = NoCall
    /\ added_by_add_file = {}
    /\ added_by_proto = {}

NextRules == ToFileDescriptor

SpecRules == InitRules /\ [][NextRules]_vars

\* what a type name written in one of these files resolves to
ResolvedKind(file, name) ==
    IF \E i \in 1..Len(file.messages) : name = "." \o file.messages[i].name
    THEN "message"
    ELSE IF \E i \in 1..Len(file.enums) : name = "." \o file.enums[i].name
    THEN "enum"
    ELSE IF \E i \in 1..Len(file.services) : name = "." \o file.services[i].name
    THEN "service"
    ELSE "none"

\* CheckError::InvalidMethodTypeName { name, kind, span }, as the tests
\* expect it
InvalidMethodTypeName(name, kind, span) ==
    [kind |-> "InvalidMethodTypeName", name |-> name, position |-> kind,
     span |-> Some(span)]

\* the errors of the result that are InvalidMethodTypeName
MethodTypeErrors ==
    SelectSeq(check_out[1].errors,
              LAMBDA e : e.kind = "InvalidMethodTypeName")

\* the methods of the checked file, as <<service, method>> positions
CheckedMethods ==
    {<<s, m>> \in (1..1) \X (1..MaxMethods + 1) :
        /\ s <= Len(source.parsed.ast.services)
        /\ m <= Len(source.parsed.ast.services[s].methods)}

TheMethod(sm) == source.parsed.ast.services[sm[1]].methods[sm[2]]

\* C21: a method whose input or output type name resolves to something
\* that is not a message makes the check fail with InvalidMethodTypeName
\* carrying the name as written and "input" or "output"; a method whose two
\* types are messages is reported by no such error
C21_InvalidMethodTypeName ==
    check_out # None =>
        \A sm \in CheckedMethods :
            LET file == source.parsed.ast
                method == TheMethod(sm)
                input == InvalidMethodTypeName(method.input_ty.name, "input",
                                               method.input_ty.span)
                output == InvalidMethodTypeName(method.output_ty.name, "output",
                                                method.output_ty.span)
                reported(e) == \E i \in 1..Len(MethodTypeErrors) :
                                   MethodTypeErrors[i] = e
            IN  /\ ResolvedKind(file, method.input_ty.name) # "message" =>
                       ~check_out[1].ok /\ reported(input)
                /\ ResolvedKind(file, method.output_ty.name) # "message" =>
                       ~check_out[1].ok /\ reported(output)
                /\ ResolvedKind(file, method.input_ty.name) = "message" =>
                       ~reported(input)
                /\ ResolvedKind(file, method.output_ty.name) = "message" =>
                       ~reported(output)

\* what the lowering does with a file that declares a service: it stops at
\* todo!() and returns neither a descriptor nor errors
ServicePanics ==
    check_out # None /\ source.parsed.ast.services # <<>> =>
        /\ check_out[1].panicked
        /\ ~check_out[1].ok
        /\ check_out[1].errors = <<>>

\* a service whose method takes the enum was lowered
EnumInputLowered ==
    /\ check_out # None
    /\ \E sm \in CheckedMethods :
           ResolvedKind(source.parsed.ast, TheMethod(sm).input_ty.name) = "enum"


\* the field `foo` of the checked file, when it declares a message with one
HasDefault ==
    /\ source.parsed.ast.messages # <<>>
    /\ source.parsed.ast.messages[1].fields # <<>>
    /\ \E i \in 1..Len(source.parsed.ast.messages[1].fields[1].options) :
           source.parsed.ast.messages[1].fields[1].options[i].name = "default"

DefaultOption == source.parsed.ast.messages[1].fields[1].options[1]

\* C23: in a proto3 file a field with a default option makes the check
\* fail with Proto3DefaultValue over the span of the option, whatever the
\* field's type and the literal, and ValueInvalidType is not reported
C23_Proto3DefaultValue ==
    check_out # None /\ source.parsed.ast.syntax = "proto3" /\ HasDefault =>
        /\ ~check_out[1].ok
        /\ ~check_out[1].panicked
        /\ \E i \in 1..Len(check_out[1].errors) :
               check_out[1].errors[i] =
                   [kind |-> "Proto3DefaultValue",
                    span |-> Some(DefaultOption.span)]
        /\ ~HasError("ValueInvalidType")

\* what the lowering does with a field that has options, in either syntax:
\* it stops at todo!() in to_field_options
FieldOptionsPanic ==
    check_out # None /\ HasDefault =>
        /\ check_out[1].panicked
        /\ ~check_out[1].ok
        /\ check_out[1].errors = <<>>

\* a proto3 field `optional int32 foo = 1 [default = "foo"]` was lowered
Proto3DefaultLowered ==
    /\ check_out # None
    /\ source.parsed.ast.syntax = "proto3"
    /\ HasDefault
    /\ DefaultOption.value.kind = "String"
    /\ source.parsed.ast.messages[1].fields[1].ty = "Int32"


(***************************************************************************)
(* Properties of the driver's calls: errors, the import stack and the file *)
(* map.                                                                    *)
(***************************************************************************)
\* the last call was add_file on a name of the resolver and returned an
\* error
AddFileFailed ==
    /\ ret.op = "add_file"
    /\ ret.arg[1] \in Names
    /\ ~ret.res.ok

\* the last thing the call did, and the file it did it to
LastStep == ret.steps[Len(ret.steps)]

\* the last thing the call did is the one that failed
FailedAtLastStep ==
    LET op == LastStep[1]
        f == LastStep[2]
    IN  CASE ret.res.kind \in {"FileNotFound", "FileNotIncluded"} ->
                 op = "open" /\ ~fs[f].exists
          [] ret.res.kind = "FileTooLarge" ->
                 op = "open" /\ fs[f].exists
                             /\ U64Gt(fs[f].len, MAX_FILE_LEN_usize)
          [] ret.res.kind = "ParseErrors" ->
                 op = "parse" /\ ~fs[f].parsed.ok
          [] ret.res.kind = "CheckErrors" ->
                 op = "check" /\ f \notin DOMAIN file_names
          [] ret.res.kind = "CircularImport" ->
                 op = "cycle" /\ f \in Range(ret.import_stack)
          [] OTHER -> FALSE

\* C24: when add_file returns an error, the step that failed (the open,
\* parse or check of a file, or the finding of an import on the import
\* stack) is the last thing the call did, so nothing is opened, parsed,
\* checked or added after it; the file passed to add_file and the files
\* whose imports were being processed are not in the file map
C24_DriverErrorsShortCircuit ==
    AddFileFailed =>
        /\ ret.steps # <<>>
        /\ FailedAtLastStep
        /\ ret.arg[1] \notin DOMAIN file_names
        /\ \A n \in Range(ret.import_stack) : n \notin DOMAIN file_names

\* add_file("a") where a imports c, then b: c fails, and b is neither
\* opened nor added
C24_Witness ==
    /\ AddFileFailed
    /\ ret.arg[1] = "a"
    /\ Len(fs["a"].parsed.ast.imports) = 2
    /\ fs["a"].parsed.ast.imports[1].value = "c"
    /\ fs["a"].parsed.ast.imports[2].value = "b"
    /\ ret.steps = <<<<"open", "a">>, <<"parse", "a">>, <<"open", "c">>>>
    /\ "b" \notin DOMAIN file_names


\* no name occurs twice in the sequence
NoRepeat(s) == \A i, j \in 1..Len(s) : i # j => s[i] # s[j]

\* the import statements of the resolver's files form no cycle
Acyclic == \A p \in Names : ~CycleFrom(p, SourceEdge)

\* the import stack after a call of add_file(p): p, then a chain of imports
ChainFrom(stack, p) ==
    /\ NoRepeat(stack)
    /\ stack # <<>> => stack[1] = p
    /\ \A i \in 1..(Len(stack) - 1) : SourceEdge(stack[i], stack[i + 1])

\* C25: when the imports of the resolver's files form no cycle, add_file
\* never fails with CircularImport, however many import paths lead to one
\* file; in one call no file is opened, parsed or checked twice, no file
\* that is in the file map is opened, and no name is in the file map twice;
\* the import stack is the chain of imports from the root to the file
\* being processed, and after a successful call only the root is left on it
C25_SharedImportOnce ==
    [][\A p \in Names :
          AddFileCall(p) /\ Acyclic =>
              /\ ret'.res.kind # "CircularImport"
              /\ NoRepeat(ret'.opened)
              /\ NoRepeat(ret'.parsed)
              /\ NoRepeat(ret'.checked)
              /\ \A n \in Range(ret'.opened) : ~Present(n)
              /\ NoRepeat([i \in 1..Len(files') |->
                              files'[i].descriptor.name[1]])
              /\ ChainFrom(ret'.import_stack, p)
              /\ ret'.res.ok => Len(ret'.import_stack) <= 1]_vars

\* add_file("a") where a imports b and c, and c imports b: b is reached
\* twice, opened once, and the call succeeds with the files in the order
\* b, c, a
C25_Witness ==
    /\ ret.op = "add_file"
    /\ ret.arg = Some("a")
    /\ ret.res.ok
    /\ Acyclic
    /\ ImportsOf("a") = {"b", "c"}
    /\ fs["a"].parsed.ast.imports[1].value = "b"
    /\ ImportsOf("c") = {"b"}
    /\ ret.opened = <<"a", "b", "c">>
    /\ MapNames = <<"b", "c", "a">>


\* the file map is consistent: the entries have different names, file_names
\* has one key per entry, and file_names[n] is the index (from 0) of the
\* entry named n
MapConsistent(fileseq, names) ==
    /\ NoRepeat([i \in 1..Len(fileseq) |-> fileseq[i].descriptor.name[1]])
    /\ DOMAIN names = {fileseq[i].descriptor.name[1] : i \in 1..Len(fileseq)}
    /\ \A n \in DOMAIN names :
           /\ names[n] \in 0..(Len(fileseq) - 1)
           /\ fileseq[names[n] + 1].descriptor.name[1] = n

\* C26, on each state: after any sequence of calls the file map is
\* consistent
FileMapConsistent == MapConsistent(files, file_names)

\* C26: the file map is consistent after any sequence of add_file and
\* add_file_descriptor_proto calls, and each call only appends to it: the
\* entries it had keep their place, their name and their descriptor
C26_FileMapConsistentAppendOnly ==
    [][/\ MapConsistent(files', file_names')
       /\ Len(files') >= Len(files)
       /\ \A i \in 1..Len(files) :
              files'[i].descriptor = files[i].descriptor
       /\ \A n \in DOMAIN file_names :
              n \in DOMAIN file_names' /\ file_names'[n] = file_names[n]]_vars

\* the map holds three files, the middle one inserted by
\* add_file_descriptor_proto, after a call that failed
C26_Witness ==
    /\ Len(files) = 3
    /\ MapNames[2] \in added_by_proto
    /\ ~ret.res.ok
    /\ MapConsistent(files, file_names)


\* C27: a call of add_file that returns an error leaves the roots as they
\* were: the entries the map had keep their is_root flag, the entries the
\* call added (imports compiled before the failure) are no roots, and the
\* files file_descriptor_set returns with include_imports off are the same
\* as before the call; and in no step does an is_root flag that is true
\* become false
C27_FailedAddFileKeepsRoots ==
    [][/\ \A p \in Paths :
              AddFileCall(p) /\ ~ret'.res.ok =>
                  /\ \A i \in 1..Len(files') :
                         IF i <= Len(files)
                         THEN files'[i].is_root = files[i].is_root
                         ELSE ~files'[i].is_root
                  /\ filter_is_root(files', 1) = filter_is_root(files, 1)
       /\ \A i \in 1..Len(files) :
              files[i].is_root => i <= Len(files') /\ files'[i].is_root]_vars

\* a failed add_file has left an import in the map, as a non-root, behind
\* the root that was there before
C27_Witness ==
    /\ ret.op = "add_file"
    /\ ~ret.res.ok
    /\ Len(files) = 2
    /\ files[1].is_root
    /\ ~files[2].is_root
    /\ MapNames[2] \in Range(ret.checked)
    /\ Len(file_descriptor_set.file) = IF include_imports THEN 2 ELSE 1


\* C29: add_file_descriptor_proto with a descriptor whose name is in the
\* file map returns Ok and changes nothing: nothing is opened, the map is
\* as it was, and the entry of that name keeps its is_root flag, so an
\* import stays a non-root
C29_PresentProtoChangesNothing ==
    [][\A d \in ProtoDescriptors :
          AddFileDescriptorProtoCall(d) /\ Present(d.name[1]) =>
              /\ ret'.res.ok
              /\ ret'.steps = <<>>
              /\ files' = files
              /\ file_names' = file_names
              /\ files'[file_names'[d.name[1]] + 1].is_root
                     = files[file_names[d.name[1]] + 1].is_root]_vars

\* add_file_descriptor_proto was called with the name of a file that came
\* in as an import: it is still no root, and with include_imports off
\* file_descriptor_set leaves it out
C29_Witness ==
    /\ ret.op = "add_file_descriptor_proto"
    /\ ret.res.ok
    /\ ret.arg[1] \in DOMAIN file_names
    /\ ret.arg[1] \notin added_by_proto
    /\ ~files[file_names[ret.arg[1]] + 1].is_root
    /\ ~include_imports
    /\ \A i \in 1..Len(file_descriptor_set.file) :
           file_descriptor_set.file[i].name # ret.arg


(***************************************************************************)
(* Lowering a reserved range, over every number the parser hands on.       *)
(***************************************************************************)
\* C30: lowering a reserved range never aborts: for every start and end
\* the parser can produce, to_message_reserved_range and
\* to_enum_reserved_range finish with a range, with no overflow of
\* start + 1 and no failed conversion to i32
C30_ReservedRangeNeverAborts ==
    check_out # None =>
        \A i \in 1..Len(source.ranges) :
            /\ ~check_out[1].ranges[i].panicked
            /\ check_out[1].scope = "message"
                   /\ source.ranges[i].end.kind = "None"
                   => ~U64AddOne(source.ranges[i].start.value).overflow

\* the numbers of a written range are all below i32::MAX
BelowI32Max(r) ==
    /\ U64Gt(U64(I32_MAX), r.start.value)
    /\ r.end.kind = "Int" => U64Gt(U64(I32_MAX), r.end.value.value)

\* what holds instead: the lowering aborts exactly when a written number is
\* above i32::MAX, or, for a range `n` of a message, when n + 1 is
ReservedRangeAbortsAboveI32 ==
    check_out # None =>
        \A i \in 1..Len(source.ranges) :
            /\ BelowI32Max(source.ranges[i]) => ~check_out[1].ranges[i].panicked
            /\ check_out[1].ranges[i].panicked =>
                   \/ ~I32TryFromU64(source.ranges[i].start.value).ok
                   \/ /\ source.ranges[i].end.kind = "Int"
                      /\ ~I32TryFromU64(source.ranges[i].end.value.value).ok
                   \/ /\ source.ranges[i].end.kind = "None"
                      /\ check_out[1].scope = "message"
                      /\ source.ranges[i].start.value = U64(I32_MAX)

\* `reserved 2147483648;` in a message was lowered
ReservedAboveI32Lowered ==
    /\ check_out # None
    /\ check_out[1].scope = "message"
    /\ source.ranges[1].start.value = TwoTo31
    /\ source.ranges[1].end.kind = "None"

(***************************************************************************)
(* The builder's path stack: src/src/check/span.rs, Context.               *)
(*                                                                         *)
(* The visitors above hand the path down to the code they call.  The code  *)
(* keeps one path, Context.path, that with_path_item and with_path_items   *)
(* push to before the callback and pop from after it.  Here a visitor is   *)
(* the sequence of the changes it makes to the Context, in the order it    *)
(* makes them: [op, item, span, comments] with op "push" (path.push),      *)
(* "pop" (path.pop) or "location" (locations.push).  Context_apply carries *)
(* one of them out on a Context [path, locations, done].                   *)
(***************************************************************************)
\* self.path.push(path_item)
path_push(path_item) ==
    [op |-> "push", item |-> path_item, span |-> <<0, 0>>, comments |-> None]

\* self.path.pop()
path_pop == [op |-> "pop", item |-> 0, span |-> <<0, 0>>, comments |-> None]

\* self.locations.push(Location { path: self.path.clone(), span, .. })
locations_push(span, comments) ==
    [op |-> "location", item |-> 0, span |-> span, comments |-> comments]

\* the statements of a block or the turns of a loop, one after the other
RECURSIVE in_turn_from(_, _)
in_turn_from(turns, i) ==
    IF i > Len(turns) THEN <<>> ELSE turns[i] \o in_turn_from(turns, i + 1)

in_turn(turns) == in_turn_from(turns, 1)

\* Context::with_path_item as it would be without its `self.path.pop()`
with_path_item_unpopped(path_item, f) == <<path_push(path_item)>> \o f

\* Context::with_path_item; f is what the callback does
with_path_item(path_item, f) ==
    <<path_push(path_item)>> \o f \o <<path_pop>>

\* Context::with_path_items; turns[i] is what the callback does for the i-th
\* item of the iterator
with_path_items(path_item, turns) ==
    <<path_push(path_item)>>
        \o in_turn([i \in 1..Len(turns) |->
                        <<path_push(i - 1)>> \o turns[i] \o <<path_pop>>])
        \o <<path_pop>>

\* Context::add_location
Context_add_location(span) == <<locations_push(span, None)>>

\* Context::add_location_for
Context_add_location_for(path_item, span) ==
    with_path_item(path_item, Context_add_location(span))

\* Context::add_location_with_comments
Context_add_location_with_comments(span, comments) ==
    <<locations_push(span, Some(comments))>>

\* Context::visit_options
Context_visit_options(options) ==
    in_turn([i \in 1..Len(options) |->
                 Context_add_location(options[i].span)
                     \o Context_add_location_for(OPTION_NUMBER,
                                                 options[i].span)])

\* Context::visit_options_list
Context_visit_options_list(options) ==
    Context_add_location(options.span)
        \o in_turn([i \in 1..Len(options.options) |->
                        Context_add_location_for(OPTION_NUMBER,
                                                 options.options[i].span)])

\* `if let Some(options) = .. { with_path_item(OPTIONS, visit_options_list) }`
Context_visit_some_options_list(tag, options) ==
    IF options = None
    THEN <<>>
    ELSE with_path_item(tag, Context_visit_options_list(options[1]))

\* `if let Some(span) = .. { add_location_for(tag, span) }`
Context_add_some_location_for(tag, span) ==
    IF span = None THEN <<>> ELSE Context_add_location_for(tag, span[1])

\* visit_field: `match &field.kind`
Context_visit_field_kind(field) ==
    CASE field.kind.kind = "Normal" /\ field.kind.named ->
             Context_add_location_for(Field_TYPE_NAME, field.kind.name_span)
      [] field.kind.kind = "Normal" /\ ~field.kind.named ->
             Context_add_location_for(Field_TYPE, field.kind.ty_span)
      [] field.kind.kind = "Group" ->
             Context_add_location_for(Field_TYPE, field.kind.ty_span)
                 \o Context_add_location_for(Field_TYPE_NAME, field.name_span)
      [] field.kind.kind = "Map" ->
             Context_add_location_for(Field_TYPE_NAME, field.kind.ty_span)

\* Context::visit_field
Context_visit_field(field) ==
    Context_add_location_with_comments(field.span, field.comments)
        \o Context_add_location_for(Field_NAME, field.name_span)
        \o Context_add_location_for(Field_NUMBER, field.number_span)
        \o Context_add_some_location_for(Field_LABEL, field.label)
        \o Context_visit_field_kind(field)
        \o Context_add_some_location_for(Field_DEFAULT_VALUE,
                                         field.default_value)
        \o Context_visit_some_options_list(Field_OPTIONS, field.options)

\* `count` when the loop comes to the s-th statement: the number of items
\* (ranges, names, fields) of the statements before it
RECURSIVE count_at(_, _, _)
count_at(statements, s, items) ==
    IF s <= 1
    THEN 0
    ELSE count_at(statements, s - 1, items) + Len(statements[s - 1][items])

\* Context::visit_extensions
Context_visit_extensions(extensions) ==
    in_turn([s \in 1..Len(extensions) |->
        Context_add_location_with_comments(extensions[s].span,
                                           extensions[s].comments)
            \o in_turn([r \in 1..Len(extensions[s].ranges) |->
                   with_path_item(
                       count_at(extensions, s, "ranges") + r - 1,
                       Context_add_location(extensions[s].ranges[r].span)
                           \o Context_add_location_for(
                                  Range_START,
                                  extensions[s].ranges[r].start_span)
                           \o Context_add_location_for(
                                  Range_END,
                                  extensions[s].ranges[r].end_span)
                           \o Context_visit_some_options_list(
                                  ExtensionRange_OPTIONS,
                                  extensions[s].options))])])

\* Context::visit_oneof
Context_visit_oneof(oneof) ==
    IF oneof.source = "Oneof"
    THEN Context_add_location(oneof.span)
             \o Context_add_location_for(Oneof_NAME, oneof.name_span)
             \o with_path_item(Oneof_OPTIONS,
                               Context_visit_options(oneof.options))
    ELSE <<>>

\* Context::visit_enum_value
Context_visit_enum_value(value) ==
    Context_add_location_with_comments(value.span, value.comments)
        \o Context_add_location_for(EnumValue_NAME, value.name_span)
        \o Context_add_location_for(EnumValue_NUMBER, value.number_span)
        \o Context_visit_some_options_list(EnumValue_OPTIONS, value.options)

\* Context::visit_reserved_ranges
Context_visit_reserved_ranges(reserveds) ==
    in_turn([s \in 1..Len(reserveds) |->
        Context_add_location_with_comments(reserveds[s].span,
                                           reserveds[s].comments)
            \o in_turn([r \in 1..Len(reserveds[s].ranges) |->
                   with_path_item(
                       count_at(reserveds, s, "ranges") + r - 1,
                       Context_add_location(reserveds[s].ranges[r].span)
                           \o Context_add_location_for(
                                  Range_START,
                                  reserveds[s].ranges[r].start_span)
                           \o Context_add_location_for(
                                  Range_END,
                                  reserveds[s].ranges[r].end_span))])])

\* Context::visit_reserved_names
Context_visit_reserved_names(reserveds) ==
    in_turn([s \in 1..Len(reserveds) |->
        Context_add_location_with_comments(reserveds[s].span,
                                           reserveds[s].comments)
            \o in_turn([n \in 1..Len(reserveds[s].names) |->
                   Context_add_location_for(
                       count_at(reserveds, s, "names") + n - 1,
                       reserveds[s].names[n].span)])])

\* Context::visit_enum
Context_visit_enum(enu) ==
    Context_add_location_with_comments(enu.span, enu.comments)
        \o Context_add_location_for(Enum_NAME, enu.name_span)
        \o with_path_items(Enum_VALUE,
                           [i \in 1..Len(enu.values) |->
                                Context_visit_enum_value(enu.values[i])])
        \o with_path_item(Enum_OPTIONS, Context_visit_options(enu.options))
        \o with_path_item(Enum_RESERVED_RANGE,
                          Context_visit_reserved_ranges(
                              reserved_ranges(enu.reserved)))
        \o with_path_item(Enum_RESERVED_NAME,
                          Context_visit_reserved_names(
                              reserved_names(enu.reserved)))

\* Context::visit_method
Context_visit_method(method) ==
    Context_add_location_with_comments(method.span, method.comments)
        \o Context_add_location_for(Method_NAME, method.name_span)
        \o Context_add_location_for(Method_INPUT_TYPE, method.input_ty_span)
        \o Context_add_location_for(Method_OUTPUT_TYPE,
                                    method.output_ty_span)
        \o Context_add_some_location_for(Method_CLIENT_STREAMING,
                                         method.client_streaming)
        \o Context_add_some_location_for(Method_SERVER_STREAMING,
                                         method.server_streaming)
        \o with_path_item(Method_OPTIONS,
                          Context_visit_options(method.options))

\* Context::visit_service
Context_visit_service(service) ==
    Context_add_location_with_comments(service.span, service.comments)
        \o Context_add_location_for(Service_NAME, service.name_span)
        \o with_path_items(Service_METHOD,
                           [i \in 1..Len(service.methods) |->
                                Context_visit_method(service.methods[i])])
        \o with_path_item(Service_OPTIONS,
                          Context_visit_options(service.options))

\* Context::visit_extends
Context_visit_extends(extends) ==
    in_turn([s \in 1..Len(extends) |->
        Context_add_location_with_comments(extends[s].span,
                                           extends[s].comments)
            \o in_turn([k \in 1..Len(extends[s].fields) |->
                   with_path_item(
                       count_at(extends, s, "fields") + k - 1,
                       Context_visit_field(extends[s].fields[k])
                           \o Context_add_location_for(
                                  Extend_FIELD_EXTENDEE,
                                  extends[s].extendee_span))])])

RECURSIVE Context_visit_message(_)

\* Context::visit_message
Context_visit_message(message) ==
    IF message.ast.source = "Map"
    THEN <<>>
    ELSE Context_add_location_with_comments(message.ast.span,
                                            message.ast.comments)
             \o Context_add_location_for(Message_NAME, message.ast.name_span)
             \o with_path_items(
                    Message_FIELD,
                    [i \in 1..Len(message.fields) |->
                         IF message.fields[i].source = "Field"
                         THEN Context_visit_field(message.fields[i].ast)
                         ELSE <<>>])
             \o with_path_item(Message_EXTENSION,
                               Context_visit_extends(message.ast.body.extends))
             \o with_path_items(
                    Message_ONEOF_DECL,
                    [i \in 1..Len(message.oneofs) |->
                         Context_visit_oneof(message.oneofs[i])])
             \o with_path_items(
                    Message_NESTED_TYPE,
                    [i \in 1..Len(message.messages) |->
                         Context_visit_message(message.messages[i])])
             \o with_path_items(
                    Message_ENUM_TYPE,
                    [i \in 1..Len(message.ast.body.enums) |->
                         Context_visit_enum(message.ast.body.enums[i])])
             \o with_path_item(Message_OPTIONS,
                               Context_visit_options(message.ast.body.options))
             \o with_path_item(
                    Message_EXTENSION_RANGE,
                    Context_visit_extensions(message.ast.body.extensions))
             \o with_path_item(
                    Message_RESERVED_RANGE,
                    Context_visit_reserved_ranges(
                        reserved_ranges(message.ast.body.reserved)))
             \o with_path_item(
                    Message_RESERVED_NAME,
                    Context_visit_reserved_names(
                        reserved_names(message.ast.body.reserved)))

\* the imports of with_path_items(PUBLIC_DEPENDENCY, ..) or
\* with_path_items(WEAK_DEPENDENCY, ..)
Context_each_import_of_kind(imports) ==
    [i \in 1..Len(imports) |-> Context_add_location(imports[i].span)]

\* Context::visit_file
Context_visit_file(file) ==
    Context_add_location(file.ast.span)
        \o (IF file.ast.package = None
            THEN <<>>
            ELSE with_path_item(File_PACKAGE,
                                Context_add_location_with_comments(
                                    file.ast.package[1].span,
                                    file.ast.package[1].comments)))
        \o with_path_items(
               File_DEPENDENCY,
               [i \in 1..Len(file.ast.imports) |->
                    Context_add_location_with_comments(
                        file.ast.imports[i].span,
                        file.ast.imports[i].comments)])
        \o with_path_items(File_PUBLIC_DEPENDENCY,
                           Context_each_import_of_kind(
                               imports_of_kind(file.ast.imports, "Public")))
        \o with_path_items(File_WEAK_DEPENDENCY,
                           Context_each_import_of_kind(
                               imports_of_kind(file.ast.imports, "Weak")))
        \o with_path_items(File_MESSAGE_TYPE,
                           [i \in 1..Len(file.messages) |->
                                Context_visit_message(file.messages[i])])
        \o with_path_items(File_ENUM_TYPE,
                           [i \in 1..Len(file.ast.enums) |->
                                Context_visit_enum(file.ast.enums[i])])
        \o with_path_items(File_SERVICE,
                           [i \in 1..Len(file.ast.services) |->
                                Context_visit_service(file.ast.services[i])])
        \o with_path_item(File_EXTENSION,
                          Context_visit_extends(file.ast.extends))
        \o with_path_item(File_OPTIONS,
                          Context_visit_options(file.ast.options))
        \o (IF file.ast.syntax_span = None
            THEN <<>>
            ELSE with_path_item(File_SYNTAX,
                                Context_add_location_with_comments(
                                    file.ast.syntax_span[1][1],
                                    file.ast.syntax_span[1][2])))

\* one change of the Context; Vec::pop of an empty path leaves it empty
Context_apply(ctx, change) ==
    CASE change.op = "push" ->
             [ctx EXCEPT !.path = Append(@, change.item)]
      [] change.op = "pop" ->
             [ctx EXCEPT !.path = IF @ = <<>>
                                  THEN <<>>
                                  ELSE SubSeq(@, 1, Len(@) - 1)]
      [] change.op = "location" ->
             [ctx EXCEPT !.locations =
                             Append(@, [path |-> ctx.path,
                                        span |-> resolve_span(change.span),
                                        comments |-> change.comments])]

\* get_source_code_info: `let mut ctx = Context { path: vec![],
\* locations: vec![], .. }`; done is the number of changes that
\* `ctx.visit_file(self)` has made so far
Context_new == [path |-> <<>>, locations |-> <<>>, done |-> 0]

(***************************************************************************)
(* The builder on a written file, change by change: SpecContext.  info_out *)
(* holds the Context of get_source_code_info while visit_file runs; when   *)
(* visit_file has returned, its locations are the SourceCodeInfo.          *)
(***************************************************************************)
MaxContextItems == 2

\* the written files the builder is followed on
ContextFiles ==
    {w \in WrittenFiles :
        Len(w.items) <= MaxContextItems /\ Len(w.body) <= MaxContextItems}

InitContext ==
    /\ source \in {[len |-> U64(100), written |-> w, ir |-> IrOf(w),
                    parsed |-> ParsedOk(AstOf(w))] : w \in ContextFiles}
    /\ check_out = None
    /\ parse_out = None
    /\ info_out = None
    /\ fs = [n \in Names |-> [exists |-> FALSE, len |-> U64(0),
                              parsed |-> ParsedOk(DriverAst(<<>>, 1))]]
    /\ files = <<>>
    /\ file_names = <<>>
    /\ include_imports = FALSE
    /\ include_source_info = FALSE
    /\ ret = NoCall
    /\ added_by_add_file = {}
    /\ added_by_proto = {}

\* get_source_code_info: the Context is made
NewContext ==
    /\ info_out = None
    /\ info_out' = Some(Context_new)
    /\ UNCHANGED <<source, check_out, parse_out, driver_vars>>

\* `ctx.visit_file(self)`: its next change of the Context
VisitFileStep ==
    /\ info_out # None
    /\ info_out[1].done < Len(Context_visit_file(source.ir))
    /\ info_out' =
           Some([Context_apply(
                     info_out[1],
                     Context_visit_file(source.ir)[info_out[1].done + 1])
                 EXCEPT !.done = @ + 1])
    /\ UNCHANGED <<source, check_out, parse_out, driver_vars>>

NextContext == NewContext \/ VisitFileStep

SpecContext == InitContext /\ [][NextContext]_vars

\* visit_file has returned
VisitFileReturned ==
    /\ info_out # None
    /\ info_out[1].done = Len(Context_visit_file(source.ir))

\* C28: the path stack is balanced, so at every Location emission the path
\* is the descriptor path of the node being visited (a position of the
\* descriptor tree), the first Location (the whole file) has the empty
\* path, and the path is empty again when visit_file returns
C28_PathIsDescriptorPathOfNode ==
    /\ info_out # None =>
           \A i \in 1..Len(info_out[1].locations) :
               /\ InSchema(info_out[1].locations[i].path)
               /\ i = 1 => info_out[1].locations[i].path = <<>>
    /\ VisitFileReturned => info_out[1].path = <<>>

\* the Locations but those of options have paths of the descriptor tree
PathsAreOfNodesButOptions ==
    info_out # None =>
        \A i \in 1..Len(info_out[1].locations) :
            ~IsOptionPath(info_out[1].locations[i].path) =>
                InSchema(info_out[1].locations[i].path)

\* an option was visited and visit_file has returned
OptionVisited ==
    /\ VisitFileReturned
    /\ \E i \in 1..Len(info_out[1].locations) :
           IsOptionPath(info_out[1].locations[i].path)

\* what holds of the path stack: the first Location (the whole file) has
\* the empty path, and when visit_file returns the path is empty again and
\* every Location has the path of the with_path_item and with_path_items
\* calls it is emitted in, which is the path the visitors hand down
PathStackBalanced ==
    /\ (info_out # None /\ info_out[1].locations # <<>>) =>
           info_out[1].locations[1].path = <<>>
    /\ VisitFileReturned =>
           /\ info_out[1].path = <<>>
           /\ [i \in 1..Len(info_out[1].locations) |->
                  [path |-> info_out[1].locations[i].path,
                   span |-> info_out[1].locations[i].span,
                   comments |-> info_out[1].locations[i].comments]]
                  = visit_file(<<>>, source.ir)

\* a file was walked whose path grew to six items and more and came back:
\* a later Location has a shorter path that does not begin with them
DeepPathWalked ==
    /\ VisitFileReturned
    /\ \E i, j \in 1..Len(info_out[1].locations) :
           /\ i < j
           /\ Len(info_out[1].locations[i].path) >= 6
           /\ Len(info_out[1].locations[j].path) = 3
           /\ info_out[1].locations[j].path[3]
                  # info_out[1].locations[i].path[3]
====
